---- MODULE Spec2Model ----
(***************************************************************************)
(* A model of the workflow-tools rule tooling:                             *)
(*   rules/tools/extract-rule-section.py  (RuleExtractor)                  *)
(*   rules/tools/rule-bundler.py          (RuleBundler)                    *)
(*   rules/tools/rule-diff.py             (RuleDiffer)                     *)
(*   rules/tools/validate-rule.py         (RuleValidator, main)            *)
(*                                                                         *)
(* A rule document is a sequence of newline-terminated lines.  A line is a *)
(* pair <<kind, name>>:                                                    *)
(*   <<"start", n>>  the line  <!-- EXTRACT:n:start -->                    *)
(*   <<"end", n>>    the line  <!-- EXTRACT:n:end -->                      *)
(*   <<"h2", N>>     the line  ## N                                        *)
(*   <<"h3", t>>     the line  ### t           (a sub-heading)             *)
(*   <<"hgood", k>>  the line  ### GOOD_EXAMPLE_k: <title>                 *)
(*   <<"hbad", k>>   the line  ### BAD_EXAMPLE_k: <title>                  *)
(*   <<"fence", l>>  the line  ```l            (an opening fence)          *)
(*   <<"close", "">> the line  ```             (a closing fence)           *)
(*   <<"why", kind>> the line  **Why this is kind**: <explanation>         *)
(*   <<"item", id>>  the line  1. **[id]** <text>   (a tagged item); in    *)
(*                   the validator's documents id is <<family, digits>>,   *)
(*                   as in <<"REQ", <<"0", "0", "1">>>> for REQ001         *)
(*   <<"num", t>>    the line  2. <text>       (a numbered item, no tag)   *)
(*   <<"rationale", t>>  the line     - Rationale: t                       *)
(*   <<"impact", t>>     the line     - Impact: t                          *)
(*   <<"because", t>>    the line     - Why: t                             *)
(*   <<"instead", t>>    the line     - Instead: t                         *)
(*   <<"pgood", k>>  the line  - **PATTERN_GOOD_k**: `<pattern>`           *)
(*   <<"pbad", k>>   the line  - **PATTERN_BAD_k**: `<pattern>`            *)
(*   <<"text", t>>   a line of prose t                                     *)
(*   <<"blank", "">> a line of white space only                            *)
(*   <<"hloosegood", d>>  the line  ### Good Example d: <title>            *)
(*   <<"hloosebad", d>>   the line  ### Bad Example d: <title>             *)
(*   <<"glued", l>>  the line l with  <!-- EXTRACT:requirements:end -->    *)
(*                   appended to it                                        *)
(*   <<"dash", "">>  the line  ---             (front matter delimiter)    *)
(*   <<"severity", v>>, <<"category", v>>, <<"language", v>>               *)
(*                   the front matter line  severity: v  (and so on)       *)
(***************************************************************************)
EXTENDS Integers, Sequences, FiniteSets, TLC

VARIABLES
    content,      \* RuleExtractor.content: the document, a sequence of lines
    call,         \* the extractor call last made: [op, arg]
    ret,          \* what that call returned
    rules_index,  \* RuleBundler.rules_index['rules']: rule id -> index entry
    task,         \* the task description given to bundle_for_task
    analysis,     \* the locals of the last bundle_for_task call
    bundle,       \* the content of the bundle object the caller holds
    max_tokens,   \* the budget given to optimize_bundle
    given,        \* the content of the bundle before optimize_bundle was called
    returned,     \* the contents optimize_bundle returned, one per call
    rule1,        \* the content of the file at rule1_path
    rule2,        \* the content of the file at rule2_path
    diff_result,  \* what diff_rules returned, or that it raised
    rule_file,    \* the content of the file the validator is given
    errors,       \* RuleValidator.errors
    warnings,     \* RuleValidator.warnings
    outcome,      \* the validator call last made and how it ended
    bundles_dir,  \* the files of RuleBundler.bundles_dir: file name -> JSON text
    loaded,       \* the create_named_bundle or load_bundle call last made
    named,        \* for each name, the dict create_named_bundle last built for it
    clock,        \* the number of calls made, which datetime.now() reads
    as_main,      \* rule-bundler.py runs as __main__, which is what binds datetime
    rules_dir,    \* the rule files the index lists, in the order of their paths
    report,       \* what validate_all_rules got from validate_file, file by file
    comparisons,  \* what compare_category returned
    held          \* the lists earlier validate_file calls returned to the caller

extractorVars == <<content, call, ret>>

bundlerVars == <<rules_index, task, analysis, bundle>>

optimizerVars == <<max_tokens, given, returned>>

differVars == <<rule1, rule2, diff_result>>

validatorVars == <<rule_file, errors, warnings, outcome>>

storeVars == <<bundles_dir, loaded, named, clock, as_main>>

batchVars == <<rules_dir, report, comparisons>>

reuseVars == <<held>>

sessionVars == <<storeVars, batchVars, reuseVars>>

vars == <<content, call, ret, rules_index, task, analysis, bundle,
          max_tokens, given, returned, rule1, rule2, diff_result,
          rule_file, errors, warnings, outcome, bundles_dir, loaded, named, clock,
          as_main, rules_dir, report, comparisons, held>>

\* ------------------------------------------------------------------------
\* Helpers

Min(S) == CHOOSE x \in S : \A y \in S : x <= y

SeqsUpTo(S, n) == UNION {[1..k -> S] : k \in 0..n}

None == [some |-> FALSE, text |-> <<>>]

Some(t) == [some |-> TRUE, text |-> t]

IsBlank(line) == line[1] = "blank"

\* str.strip() on a run of lines: the white-space-only lines at both ends go.
RECURSIVE StripLeft(_)
StripLeft(s) ==
    IF s # <<>> /\ IsBlank(Head(s)) THEN StripLeft(Tail(s)) ELSE s

RECURSIVE StripRight(_)
StripRight(s) ==
    IF s # <<>> /\ IsBlank(s[Len(s)]) THEN StripRight(SubSeq(s, 1, Len(s) - 1)) ELSE s

Strip(s) == StripRight(StripLeft(s))

\* section_name.upper().replace('-', '_')
UpperName(n) ==
    CASE n = "requirements" -> "REQUIREMENTS"
      [] n = "antipatterns" -> "ANTIPATTERNS"
      [] n = "patterns" -> "PATTERNS"
      [] n = "metrics" -> "METRICS"
      [] OTHER -> n

\* A line that the look-ahead ^## matches at its start: every heading of
\* level two or deeper begins with the two characters "##".
StartsWithHashHash(line) == line[1] \in {"h2", "h3", "hgood", "hbad"}

\* ------------------------------------------------------------------------
\* RuleExtractor.extract_section

\* re.search(r'<!-- EXTRACT:n:start -->(.*?)<!-- EXTRACT:n:end -->', DOTALL):
\* the leftmost start marker that some end marker follows, and the lazy
\* group up to the nearest end marker after it.
MarkerStarts(doc, n) ==
    {i \in 1..Len(doc) :
        /\ doc[i] = <<"start", n>>
        /\ \E j \in (i + 1)..Len(doc) : doc[j] = <<"end", n>>}

MarkerEnd(doc, n, i) == Min({j \in (i + 1)..Len(doc) : doc[j] = <<"end", n>>})

MarkerText(doc, n) ==
    LET i == Min(MarkerStarts(doc, n))
        j == MarkerEnd(doc, n, i)
    IN  Strip(SubSeq(doc, i + 1, j - 1))

\* re.search(r'^## NAME\n(.*?)(?=^##|\Z)', MULTILINE | DOTALL): the first
\* line that is exactly "## NAME", and the lazy group up to the next line
\* that starts with "##" or to the end of the document.
HeadingLines(doc, n) == {i \in 1..Len(doc) : doc[i] = <<"h2", UpperName(n)>>}

HeadingStop(doc, i) ==
    Min({j \in (i + 1)..Len(doc) : StartsWithHashHash(doc[j])} \cup {Len(doc) + 1})

HeadingText(doc, n) ==
    LET i == Min(HeadingLines(doc, n))
    IN  Strip(SubSeq(doc, i + 1, HeadingStop(doc, i) - 1))

\* A variant that tries the heading before the markers.
extract_section_HeadingFirst(doc, n) ==
    IF HeadingLines(doc, n) # {} THEN Some(HeadingText(doc, n))
    ELSE IF MarkerStarts(doc, n) # {} THEN Some(MarkerText(doc, n))
    ELSE None

extract_section(doc, n) ==
    IF MarkerStarts(doc, n) # {} THEN Some(MarkerText(doc, n))
    ELSE IF HeadingLines(doc, n) # {} THEN Some(HeadingText(doc, n))
    ELSE None

\* ------------------------------------------------------------------------
\* RuleExtractor.extract_examples

\* The first line at or after p whose kind is in kinds, or Len(s) + 1.
Stop(s, p, kinds) ==
    Min({q \in p..Len(s) : s[q][1] \in kinds} \cup {Len(s) + 1})

ExampleHeading(kind) == IF kind = "good" THEN "hgood" ELSE "hbad"

ExampleIdPrefix(kind) == IF kind = "good" THEN "GOOD_EXAMPLE" ELSE "BAD_EXAMPLE"

\* The places where  \n```(\w+)\n(.*?)```\n\*\*Why this is kind\*\*:  can
\* match after the heading at line p: an opening fence j, and a closing
\* fence k that the explanation line of this kind follows at once.  With
\* DOTALL neither lazy group stops at a line end or at another heading.
FencePairs(doc, kind, p) ==
    {jk \in ((p + 1)..Len(doc)) \X ((p + 1)..Len(doc)) :
        /\ jk[1] < jk[2]
        /\ doc[jk[1]][1] = "fence"
        /\ doc[jk[2]][1] = "close"
        /\ jk[2] + 1 <= Len(doc)
        /\ doc[jk[2] + 1] = <<"why", kind>>}

\* re.finditer from line p on: the lazy title group takes the nearest
\* opening fence that lets the whole pattern match, the lazy code group the
\* nearest closing fence after it; the explanation runs to the next "###"
\* or to the end, and the scan resumes there.
RECURSIVE ExamplesFrom(_, _, _)
ExamplesFrom(doc, kind, p) ==
    IF p > Len(doc) THEN <<>>
    ELSE IF doc[p][1] # ExampleHeading(kind) \/ FencePairs(doc, kind, p) = {}
    THEN ExamplesFrom(doc, kind, p + 1)
    ELSE LET pairs == FencePairs(doc, kind, p)
             j == Min({jk[1] : jk \in pairs})
             k == Min({jk[2] : jk \in {x \in pairs : x[1] = j}})
             e == Stop(doc, k + 2, {"h3", "hgood", "hbad"})
         IN  <<[id |-> <<ExampleIdPrefix(kind), doc[p][2]>>,
                title |-> SubSeq(doc, p, j - 1),
                language |-> doc[j][2],
                code |-> Strip(SubSeq(doc, j + 1, k - 1)),
                explanation |-> Strip(SubSeq(doc, k + 1, e - 1))]>>
             \o ExamplesFrom(doc, kind, e)

extract_examples(doc, kind) == ExamplesFrom(doc, kind, 1)

\* ------------------------------------------------------------------------
\* RuleExtractor.extract_requirements, extract_antipatterns

\* A line that the look-ahead \n\d+\. matches: a numbered list item.
Numbered == {"item", "num"}

\* re.finditer of  \*\*\[(\w+)\]\*\* (.*?)(?:\n - A: (.*?))?(?:\n - B: (.*?))?(?=\n\d+\.|\Z)
\* over the section text: each tagged item, its text up to the first
\* continuation line (a: kind of the A line, b: kind of the B line), the
\* next numbered item or the end; then the A text and the B text likewise.
RECURSIVE ItemRecords(_, _, _, _)
ItemRecords(sec, p, a, b) ==
    IF p > Len(sec) THEN <<>>
    ELSE IF sec[p][1] # "item" THEN ItemRecords(sec, p + 1, a, b)
    ELSE LET q == Stop(sec, p + 1, {a, b} \cup Numbered)
             hasA == q <= Len(sec) /\ sec[q][1] = a
             r == IF hasA THEN Stop(sec, q + 1, {b} \cup Numbered) ELSE q
             hasB == r <= Len(sec) /\ sec[r][1] = b
             s == IF hasB THEN Stop(sec, r + 1, Numbered) ELSE r
         IN  <<[id |-> sec[p][2],
                text |-> Strip(SubSeq(sec, p, q - 1)),
                first |-> IF hasA THEN Some(Strip(SubSeq(sec, q, r - 1))) ELSE None,
                second |-> IF hasB THEN Some(Strip(SubSeq(sec, r, s - 1))) ELSE None]>>
             \o ItemRecords(sec, s, a, b)

\* section = extract_section(first); if not section: extract_section(second)
\* ("not" holds of None and of the empty string alike).
SectionOrFallback(doc, first, second) ==
    LET s == extract_section(doc, first)
    IN  IF s.some /\ s.text # <<>> THEN s ELSE extract_section(doc, second)

\* A variant that scans the whole document when no section is found.
extract_requirements_WholeDocument(doc) ==
    LET s == SectionOrFallback(doc, "requirements", "MUST_FOLLOW")
        recs == ItemRecords(IF s.some /\ s.text # <<>> THEN s.text ELSE doc,
                            1, "rationale", "impact")
    IN  [i \in DOMAIN recs |->
            [id |-> recs[i].id, requirement |-> recs[i].text,
             rationale |-> recs[i].first, impact |-> recs[i].second]]

extract_requirements(doc) ==
    LET s == SectionOrFallback(doc, "requirements", "MUST_FOLLOW")
        recs == IF s.some /\ s.text # <<>>
                THEN ItemRecords(s.text, 1, "rationale", "impact") ELSE <<>>
    IN  [i \in DOMAIN recs |->
            [id |-> recs[i].id, requirement |-> recs[i].text,
             rationale |-> recs[i].first, impact |-> recs[i].second]]

extract_antipatterns(doc) ==
    LET s == SectionOrFallback(doc, "antipatterns", "MUST_NOT_DO")
        recs == IF s.some /\ s.text # <<>>
                THEN ItemRecords(s.text, 1, "because", "instead") ELSE <<>>
    IN  [i \in DOMAIN recs |->
            [id |-> recs[i].id, antipattern |-> recs[i].text,
             why |-> recs[i].first, instead |-> recs[i].second]]

\* ------------------------------------------------------------------------
\* RuleExtractor.extract_patterns, extract_all

RECURSIVE SelectSeq2(_, _)
SelectSeq2(s, kind) ==
    IF s = <<>> THEN <<>>
    ELSE (IF Head(s)[1] = kind
          THEN <<[id |-> <<kind, Head(s)[2]>>, pattern |-> Head(s)[2],
                  example |-> None, matches |-> None]>>
          ELSE <<>>) \o SelectSeq2(Tail(s), kind)

\* Each bullet  - **PATTERN_GOOD_k**: `p`  (line <<"pgood", k>>) or
\* - **PATTERN_BAD_k**: `p`  (line <<"pbad", k>>) of the patterns section.
\* The optional Example/Matches/Avoid groups are lazy and end the pattern,
\* so each matches the empty string and is stored as None.
extract_patterns(doc) ==
    LET s == extract_section(doc, "patterns")
        text == IF s.some THEN s.text ELSE <<>>
    IN  [good |-> SelectSeq2(text, "pgood"), bad |-> SelectSeq2(text, "pbad")]

\* ------------------------------------------------------------------------
\* RuleExtractor._extract_metadata

MetaKeys == {"severity", "category", "language"}

\* A metadata value is null (Python None), a mapping from keys to strings,
\* or a plain string.
YamlNull == [null |-> TRUE, mapping |-> FALSE, fields |-> << >>]

YamlDict(fields) == [null |-> FALSE, mapping |-> TRUE, fields |-> fields]

YamlScalar == [null |-> FALSE, mapping |-> FALSE, fields |-> << >>]

\* yaml.safe_load of front matter lines  key: value : the mapping of the
\* keys, a later line of a key replacing an earlier one; a text with no
\* such line is a plain scalar, which loads as a string, if it has a text
\* line, and else the empty YAML document, which loads as None.
yaml_safe_load(lines) ==
    LET at(k) == {i \in DOMAIN lines : lines[i][1] = k}
        keys == {k \in MetaKeys : at(k) # {}}
    IN  IF keys = {}
        THEN IF \E i \in DOMAIN lines : lines[i][1] = "text" THEN YamlScalar ELSE YamlNull
        ELSE YamlDict([k \in keys |->
                 lines[CHOOSE i \in at(k) : \A j \in at(k) : j <= i][2]])

\* content.startswith('---') and content.find('---', 3): the first line is
\* the delimiter and end_marker is at the next delimiter line.
extract_metadata(doc) ==
    IF doc # <<>> /\ doc[1][1] = "dash"
    THEN LET ends == {j \in 2..Len(doc) : doc[j][1] = "dash"}
         IN  IF ends # {} THEN yaml_safe_load(SubSeq(doc, 2, Min(ends) - 1))
             ELSE YamlDict(<< >>)
    ELSE YamlDict(<< >>)

extract_all(doc) ==
    [metadata |-> extract_metadata(doc),
     rule_summary |-> extract_section(doc, "RULE_SUMMARY"),
     requirements |-> extract_requirements(doc),
     antipatterns |-> extract_antipatterns(doc),
     good_examples |-> extract_examples(doc, "good"),
     bad_examples |-> extract_examples(doc, "bad"),
     patterns |-> extract_patterns(doc),
     metrics |-> extract_section(doc, "metrics"),
     automated_checks |-> extract_section(doc, "AUTOMATED_CHECKS")]

\* ------------------------------------------------------------------------
\* Text: a task description is a sequence of characters

UpperLetters ==
    <<"A", "B", "C", "D", "E", "F", "G", "H", "I", "J", "K", "L", "M",
      "N", "O", "P", "Q", "R", "S", "T", "U", "V", "W", "X", "Y", "Z">>

LowerLetters ==
    <<"a", "b", "c", "d", "e", "f", "g", "h", "i", "j", "k", "l", "m",
      "n", "o", "p", "q", "r", "s", "t", "u", "v", "w", "x", "y", "z">>

Digits == {"0", "1", "2", "3", "4", "5", "6", "7", "8", "9"}

\* str.lower()
LowerChar(c) ==
    IF \E i \in DOMAIN UpperLetters : UpperLetters[i] = c
    THEN LowerLetters[CHOOSE i \in DOMAIN UpperLetters : UpperLetters[i] = c]
    ELSE c

Lower(text) == [i \in 1..Len(text) |-> LowerChar(text[i])]

\* kw in text: kw occurs in text as a substring
Contains(text, kw) ==
    \E i \in 0..(Len(text) - Len(kw)) : SubSeq(text, i + 1, i + Len(kw)) = kw

\* any(word in text for word in words)
ContainsAny(text, words) == \E kw \in words : Contains(text, kw)

\* ' '.join(words)
RECURSIVE JoinWords(_)
JoinWords(words) ==
    IF words = <<>> THEN <<>>
    ELSE IF Len(words) = 1 THEN words[1]
    ELSE words[1] \o <<" ">> \o JoinWords(Tail(words))

\* \w
IsWordChar(c) ==
    \/ \E i \in DOMAIN LowerLetters : LowerLetters[i] = c \/ UpperLetters[i] = c
    \/ c \in Digits
    \/ c = "_"

\* re.findall(r'\b\w{4,}\b', text): the maximal runs of word characters
\* that are at least four characters long, in order, repeats kept.
RECURSIVE FindWords(_, _)
FindWords(text, p) ==
    IF p > Len(text) THEN <<>>
    ELSE IF ~IsWordChar(text[p]) THEN FindWords(text, p + 1)
    ELSE LET e == Min({q \in p..Len(text) : ~IsWordChar(text[q])} \cup {Len(text) + 1})
         IN  (IF e - p >= 4 THEN <<SubSeq(text, p, e - 1)>> ELSE <<>>)
             \o FindWords(text, e)

\* ------------------------------------------------------------------------
\* RuleBundler._analyze_task

ReviewWords == {<<"r", "e", "v", "i", "e", "w">>, <<"c", "h", "e", "c", "k">>, <<"v", "a", "l", "i", "d", "a", "t", "e">>, <<"a", "u", "d", "i", "t">>}

GenerateWords == {<<"g", "e", "n", "e", "r", "a", "t", "e">>, <<"c", "r", "e", "a", "t", "e">>, <<"w", "r", "i", "t", "e">>, <<"i", "m", "p", "l", "e", "m", "e", "n", "t">>}

FixWords == {<<"f", "i", "x">>, <<"r", "e", "p", "a", "i", "r">>, <<"c", "o", "r", "r", "e", "c", "t">>, <<"u", "p", "d", "a", "t", "e">>}

LearnWords == {<<"l", "e", "a", "r", "n">>, <<"u", "n", "d", "e", "r", "s", "t", "a", "n", "d">>, <<"e", "x", "p", "l", "a", "i", "n">>}

\* language_patterns, in the dict's order
LanguagePatterns ==
    <<<<"typescript", {<<"t", "y", "p", "e", "s", "c", "r", "i", "p", "t">>, <<"t", "s">>, <<"t", "s", "x">>}>>,
      <<"javascript", {<<"j", "a", "v", "a", "s", "c", "r", "i", "p", "t">>, <<"j", "s">>, <<"j", "s", "x">>}>>,
      <<"python", {<<"p", "y", "t", "h", "o", "n">>, <<"p", "y">>}>>,
      <<"csharp", {<<"c", "#">>, <<"c", "s", "h", "a", "r", "p">>, <<"d", "o", "t", "n", "e", "t">>, <<".", "n", "e", "t">>}>>,
      <<"go", {<<"g", "o">>, <<"g", "o", "l", "a", "n", "g">>}>>,
      <<"java", {<<"j", "a", "v", "a">>}>>,
      <<"ruby", {<<"r", "u", "b", "y">>, <<"r", "b">>}>>>>

\* category_patterns, in the dict's order
CategoryPatterns ==
    <<<<"test-naming", {<<"t", "e", "s", "t">>, <<"t", "e", "s", "t", "i", "n", "g">>, <<"s", "p", "e", "c">>, <<"u", "n", "i", "t", " ", "t", "e", "s", "t">>}>>,
      <<"code-quality", {<<"q", "u", "a", "l", "i", "t", "y">>, <<"c", "l", "e", "a", "n", " ", "c", "o", "d", "e">>, <<"r", "e", "f", "a", "c", "t", "o", "r">>, <<"c", "o", "d", "e", " ", "r", "e", "v", "i", "e", "w">>}>>,
      <<"security", {<<"s", "e", "c", "u", "r", "i", "t", "y">>, <<"s", "e", "c", "u", "r", "e">>, <<"v", "u", "l", "n", "e", "r", "a", "b", "i", "l", "i", "t", "y">>, <<"o", "w", "a", "s", "p">>}>>,
      <<"git-workflow", {<<"g", "i", "t">>, <<"c", "o", "m", "m", "i", "t">>, <<"b", "r", "a", "n", "c", "h">>, <<"p", "u", "l", "l", " ", "r", "e", "q", "u", "e", "s", "t">>, <<"p", "r">>}>>>>

StopWords == {<<"t", "h", "a", "t">>, <<"t", "h", "i", "s">>, <<"w", "i", "t", "h">>, <<"f", "r", "o", "m">>, <<"h", "a", "v", "e">>}

RECURSIVE Filter(_, _)
Filter(s, drop) ==
    IF s = <<>> THEN <<>>
    ELSE (IF Head(s) \in drop THEN <<>> ELSE <<Head(s)>>) \o Filter(Tail(s), drop)

\* The keys of an ordered pattern table whose patterns occur in the text,
\* in the table's order.
RECURSIVE Detected(_, _)
Detected(table, text) ==
    IF table = <<>> THEN <<>>
    ELSE (IF ContainsAny(text, Head(table)[2]) THEN <<Head(table)[1]>> ELSE <<>>)
         \o Detected(Tail(table), text)

\* A variant that tests the generate words before the review words.
TaskAction_GenerateFirst(task_lower) ==
    IF ContainsAny(task_lower, GenerateWords) THEN "generate"
    ELSE IF ContainsAny(task_lower, ReviewWords) THEN "review"
    ELSE IF ContainsAny(task_lower, FixWords) THEN "fix"
    ELSE IF ContainsAny(task_lower, LearnWords) THEN "learn"
    ELSE "unknown"

TaskAction(task_lower) ==
    IF ContainsAny(task_lower, ReviewWords) THEN "review"
    ELSE IF ContainsAny(task_lower, GenerateWords) THEN "generate"
    ELSE IF ContainsAny(task_lower, FixWords) THEN "fix"
    ELSE IF ContainsAny(task_lower, LearnWords) THEN "learn"
    ELSE "unknown"

analyze_task(task_description) ==
    LET task_lower == Lower(task_description)
    IN  [action |-> TaskAction(task_lower),
         languages |-> Detected(LanguagePatterns, task_lower),
         categories |-> Detected(CategoryPatterns, task_lower),
         keywords |-> Filter(FindWords(task_lower, 1), StopWords)]

\* ------------------------------------------------------------------------
\* RuleBundler._determine_sections_for_task

determine_sections_for_task(task_description) ==
    LET task_lower == Lower(task_description)
    IN  IF Contains(task_lower, <<"r", "e", "v", "i", "e", "w">>) \/ Contains(task_lower, <<"c", "h", "e", "c", "k">>)
        THEN <<"RULE_SUMMARY", "MUST_NOT_DO", "antipatterns">>
        ELSE IF Contains(task_lower, <<"g", "e", "n", "e", "r", "a", "t", "e">>) \/ Contains(task_lower, <<"c", "r", "e", "a", "t", "e">>)
        THEN <<"RULE_SUMMARY", "MUST_FOLLOW", "requirements", "good_examples">>
        ELSE IF Contains(task_lower, <<"f", "i", "x">>)
        THEN <<"RULE_SUMMARY", "antipatterns", "good_examples">>
        ELSE IF Contains(task_lower, <<"l", "e", "a", "r", "n">>) \/ Contains(task_lower, <<"e", "x", "p", "l", "a", "i", "n">>)
        THEN <<"RULE_SUMMARY", "CONTEXT_AND_RATIONALE">>
        ELSE <<"RULE_SUMMARY", "requirements", "antipatterns">>

\* ------------------------------------------------------------------------
\* RuleBundler._select_rules_for_context

SeqToSet(s) == {s[i] : i \in DOMAIN s}

\* The number of keywords of the list (repeats counted) that occur in the
\* rule's joined, lower-cased tags.
RECURSIVE KeywordHits(_, _)
KeywordHits(keywords, tagtext) ==
    IF keywords = <<>> THEN 0
    ELSE (IF Contains(tagtext, Head(keywords)) THEN 1 ELSE 0)
         + KeywordHits(Tail(keywords), tagtext)

RuleScore(rule, context) ==
    (IF rule.language \in SeqToSet(context.languages) THEN 10
     ELSE IF rule.language = "universal" THEN 2 ELSE 0)
    + (IF rule.category \in SeqToSet(context.categories) THEN 8 ELSE 0)
    + 3 * KeywordHits(context.keywords, Lower(JoinWords(rule.tags)))

ScoreSelected(index, context) ==
    {id \in DOMAIN index : RuleScore(index[id], context) >= 8}

\* A variant that also adds the prerequisites of the prerequisites.
select_rules_for_context_Transitive(index, context) ==
    LET selected == ScoreSelected(index, context)
        direct == UNION {index[id].prerequisites : id \in selected \cap DOMAIN index}
    IN  selected \cup direct
        \cup UNION {index[id].prerequisites : id \in direct \cap DOMAIN index}

select_rules_for_context(index, context) ==
    LET selected == ScoreSelected(index, context)
    IN  selected \cup UNION {index[id].prerequisites : id \in selected \cap DOMAIN index}

\* ------------------------------------------------------------------------
\* json.dumps: a JSON value is <<"str", n>> (a string of n characters),
\* <<"null", 0>>, <<"int", v>>, <<"list", items>> or <<"obj", fields>> with
\* fields a sequence of <<key, value>>; JsonLen is the length of its text
\* with the default separators ", " and ": ".

JStr(n) == <<"str", n>>

JNull == <<"null", 0>>

JInt(v) == <<"int", v>>

JList(items) == <<"list", items>>

JObj(fields) == <<"obj", fields>>

RECURSIVE DecimalLen(_)
DecimalLen(v) == IF v < 10 THEN 1 ELSE 1 + DecimalLen(v \div 10)

RECURSIVE JsonLen(_), JsonItemsLen(_), JsonFieldsLen(_)
JsonLen(v) ==
    CASE v[1] = "str" -> v[2] + 2
      [] v[1] = "null" -> 4
      [] v[1] = "int" -> DecimalLen(v[2])
      [] v[1] = "list" -> 2 + JsonItemsLen(v[2])
      [] v[1] = "obj" -> 2 + JsonFieldsLen(v[2])

JsonItemsLen(items) ==
    IF items = <<>> THEN 0
    ELSE JsonLen(Head(items))
         + (IF Len(items) > 1 THEN 2 + JsonItemsLen(Tail(items)) ELSE 0)

JsonFieldsLen(fields) ==
    IF fields = <<>> THEN 0
    ELSE Len(Head(fields)[1]) + 2 + 2 + JsonLen(Head(fields)[2])
         + (IF Len(fields) > 1 THEN 2 + JsonFieldsLen(Tail(fields)) ELSE 0)

\* The number of characters of a line as it stands in the document (a
\* fence is three backquotes, a pattern one character between backquotes).
LineLen(line) ==
    CASE line[1] = "start" -> Len("<!-- EXTRACT:") + Len(line[2]) + Len(":start -->")
      [] line[1] = "end" -> Len("<!-- EXTRACT:") + Len(line[2]) + Len(":end -->")
      [] line[1] = "h2" -> Len("## ") + Len(line[2])
      [] line[1] = "h3" -> Len("### ") + Len(line[2])
      [] line[1] = "hgood" -> Len("### GOOD_EXAMPLE_") + Len(line[2]) + Len(": ") + Len("title")
      [] line[1] = "hbad" -> Len("### BAD_EXAMPLE_") + Len(line[2]) + Len(": ") + Len("title")
      [] line[1] = "fence" -> 3 + Len(line[2])
      [] line[1] = "close" -> 3
      [] line[1] = "why" -> Len("**Why this is ") + Len(line[2]) + Len("**: ") + Len("because")
      [] line[1] = "item" -> Len("1. **[") + Len(line[2]) + Len("]** ") + Len("do this")
      [] line[1] = "num" -> Len("2. ") + Len(line[2])
      [] line[1] = "rationale" -> Len("   - Rationale: ") + Len(line[2])
      [] line[1] = "impact" -> Len("   - Impact: ") + Len(line[2])
      [] line[1] = "because" -> Len("   - Why: ") + Len(line[2])
      [] line[1] = "instead" -> Len("   - Instead: ") + Len(line[2])
      [] line[1] = "pgood" -> Len("- **PATTERN_GOOD_") + Len(line[2]) + Len("**: ") + 3
      [] line[1] = "pbad" -> Len("- **PATTERN_BAD_") + Len(line[2]) + Len("**: ") + 3
      [] line[1] = "text" -> Len(line[2])
      [] line[1] = "blank" -> 0

\* The part of a group's first line that lies before the group.
LeadLen(line) ==
    CASE line[1] = "hgood" -> Len("### GOOD_EXAMPLE_") + Len(line[2]) + Len(": ")
      [] line[1] = "hbad" -> Len("### BAD_EXAMPLE_") + Len(line[2]) + Len(": ")
      [] line[1] = "why" -> Len("**Why this is ") + Len(line[2]) + Len("**: ")
      [] line[1] = "item" -> Len("1. **[") + Len(line[2]) + Len("]** ")
      [] line[1] = "rationale" -> Len("   - Rationale: ")
      [] line[1] = "impact" -> Len("   - Impact: ")
      [] line[1] = "because" -> Len("   - Why: ")
      [] line[1] = "instead" -> Len("   - Instead: ")
      [] OTHER -> 0

\* The length of the JSON text of a run of lines joined by "\n" (each line
\* break is the two characters \n there).
RECURSIVE LinesLen(_)
LinesLen(lines) ==
    IF lines = <<>> THEN 0
    ELSE LineLen(Head(lines))
         + (IF Len(lines) > 1 THEN 2 + LinesLen(Tail(lines)) ELSE 0)

\* A whole section text, and a regex group that starts inside its first line.
TextJson(lines) == JStr(LinesLen(lines))

GroupJson(lines) ==
    JStr(IF lines = <<>> THEN 0 ELSE LinesLen(lines) - LeadLen(Head(lines)))

SectionJson(opt) == IF opt.some THEN TextJson(opt.text) ELSE JNull

OptGroupJson(opt) == IF opt.some THEN GroupJson(opt.text) ELSE JNull

RequirementJson(r) ==
    JObj(<<<<"id", JStr(Len(r.id))>>, <<"requirement", GroupJson(r.requirement)>>,
           <<"rationale", OptGroupJson(r.rationale)>>, <<"impact", OptGroupJson(r.impact)>>>>)

AntipatternJson(r) ==
    JObj(<<<<"id", JStr(Len(r.id))>>, <<"antipattern", GroupJson(r.antipattern)>>,
           <<"why", OptGroupJson(r.why)>>, <<"instead", OptGroupJson(r.instead)>>>>)

ExampleJson(e) ==
    JObj(<<<<"id", JStr(Len(e.id[1]) + Len("_") + Len(e.id[2]))>>,
           <<"title", GroupJson(e.title)>>,
           <<"language", JStr(Len(e.language))>>,
           <<"code", TextJson(e.code)>>,
           <<"explanation", GroupJson(e.explanation)>>>>)

SectionValueJson(key, value) ==
    CASE key \in {"summary", "context"} -> SectionJson(value)
      [] key = "requirements" -> JList([i \in DOMAIN value |-> RequirementJson(value[i])])
      [] key = "antipatterns" -> JList([i \in DOMAIN value |-> AntipatternJson(value[i])])
      [] key = "good_examples" -> JList([i \in DOMAIN value |-> ExampleJson(value[i])])

SectionKeys == <<"summary", "requirements", "antipatterns", "good_examples", "context">>

RECURSIVE SectionFields(_, _)
SectionFields(sections, keys) ==
    IF keys = <<>> THEN <<>>
    ELSE (IF Head(keys) \in DOMAIN sections
          THEN <<<<Head(keys), SectionValueJson(Head(keys), sections[Head(keys)])>>>>
          ELSE <<>>) \o SectionFields(sections, Tail(keys))

RuleJson(rule) ==
    JObj(<<<<"metadata",
             JObj(<<<<"rule_id", JStr(Len(rule.metadata.rule_id))>>,
                    <<"category", JStr(Len(rule.metadata.category))>>,
                    <<"language", JStr(Len(rule.metadata.language))>>,
                    <<"severity", JStr(Len(rule.metadata.severity))>>>>)>>,
           <<"sections", JObj(SectionFields(rule.sections, SectionKeys))>>>>)

StringsJson(names) == JList([i \in DOMAIN names |-> JStr(Len(names[i]))])

ContextJson(context) ==
    JObj(<<<<"action", JStr(Len(context.action))>>,
           <<"languages", StringsJson(context.languages)>>,
           <<"categories", StringsJson(context.categories)>>,
           <<"keywords", StringsJson(context.keywords)>>>>)

MetadataJson(m) ==
    JObj(<<<<"task", JStr(Len(m.task))>>,
           <<"context", ContextJson(m.context)>>,
           <<"token_estimate", JInt(m.token_estimate)>>,
           <<"rule_count", JInt(m.rule_count)>>>>)

BundleJson(b) ==
    JObj(<<<<"rules", JObj([i \in DOMAIN b.rules |-> <<b.rules[i].id, RuleJson(b.rules[i])>>])>>>>
         \o (IF b.metadata.present THEN <<<<"metadata", MetadataJson(b.metadata)>>>> ELSE <<>>))

\* ------------------------------------------------------------------------
\* RuleBundler._estimate_tokens

estimate_tokens(b) == JsonLen(BundleJson(b)) \div 4

\* ------------------------------------------------------------------------
\* RuleBundler._build_bundle

\* The rule documents on disk, by file path.
RuleFiles ==
    [path \in {"a.md", "b.md"} |->
        IF path = "a.md"
        THEN <<<<"h2", "RULE_SUMMARY">>, <<"text", "name tests well">>,
               <<"h2", "MUST_FOLLOW">>, <<"item", "REQ001">>, <<"rationale", "clarity">>,
               <<"h2", "MUST_NOT_DO">>, <<"item", "ANT001">>,
               <<"hgood", "1">>, <<"fence", "ts">>, <<"text", "it()">>, <<"close", "">>,
               <<"why", "good">>,
               <<"h2", "CONTEXT_AND_RATIONALE">>, <<"text", "history">>>>
        ELSE <<<<"h2", "RULE_SUMMARY">>, <<"text", "short">>,
               <<"h2", "REQUIREMENTS">>, <<"item", "REQ001">>, <<"item", "REQ002">>>>]

NoMetadata ==
    [present |-> FALSE, task |-> <<>>,
     context |-> [action |-> "", languages |-> <<>>, categories |-> <<>>, keywords |-> <<>>],
     token_estimate |-> 0, rule_count |-> 0]

\* The sections dict of one rule: each requested section name sets its key.
RECURSIVE ExtractSections(_, _)
ExtractSections(doc, sections) ==
    IF sections = <<>> THEN << >>
    ELSE LET s == sections[Len(sections)]
             before == ExtractSections(doc, SubSeq(sections, 1, Len(sections) - 1))
             examples == extract_examples(doc, "good")
             entry ==
                CASE s = "RULE_SUMMARY" ->
                        "summary" :> extract_section(doc, "RULE_SUMMARY")
                  [] s \in {"requirements", "MUST_FOLLOW"} ->
                        "requirements" :> extract_requirements(doc)
                  [] s \in {"antipatterns", "MUST_NOT_DO"} ->
                        "antipatterns" :> extract_antipatterns(doc)
                  [] s = "good_examples" ->
                        "good_examples" :> SubSeq(examples, 1, IF Len(examples) < 1 THEN Len(examples) ELSE 1)
                  [] s = "CONTEXT_AND_RATIONALE" ->
                        "context" :> extract_section(doc, "CONTEXT_AND_RATIONALE")
                  [] OTHER -> << >>
         IN  entry @@ before

RECURSIVE BuildRules(_, _, _)
BuildRules(index, rule_ids, sections) ==
    IF rule_ids = <<>> THEN <<>>
    ELSE LET id == Head(rule_ids)
             rest == BuildRules(index, Tail(rule_ids), sections)
         IN  IF id \notin DOMAIN index THEN rest
             ELSE IF index[id].file_path \notin DOMAIN RuleFiles THEN rest
             ELSE <<[id |-> id,
                     metadata |-> [rule_id |-> id,
                                   category |-> index[id].category,
                                   language |-> index[id].language,
                                   severity |-> index[id].severity],
                     sections |-> ExtractSections(RuleFiles[index[id].file_path], sections)]>>
                  \o rest

build_bundle(index, rule_ids, sections) ==
    [rules |-> BuildRules(index, rule_ids, sections), metadata |-> NoMetadata]

\* ------------------------------------------------------------------------
\* RuleBundler.bundle_for_task

\* list(a set): the members in some order
Orderings(S) ==
    {s \in [1..Cardinality(S) -> S] : \A i, j \in 1..Cardinality(S) : i # j => s[i] # s[j]}

\* The bundle for a task, the selected ids being listed in the order
\* selected_rules.  The token estimate is taken of the bundle before the
\* metadata entry is stored in it.
bundle_for_task(index, task_description, selected_rules) ==
    LET context == analyze_task(task_description)
        sections == determine_sections_for_task(task_description)
        b == build_bundle(index, selected_rules, sections)
    IN  [rules |-> b.rules,
         metadata |-> [present |-> TRUE,
                       task |-> task_description,
                       context |-> context,
                       token_estimate |-> estimate_tokens(b),
                       rule_count |-> Len(selected_rules)]]

\* ------------------------------------------------------------------------
\* RuleBundler.create_named_bundle and RuleBundler.load_bundle

\* The Python values a named bundle is made of.  A str holds lines.
PyNone == <<"None", 0>>

PyStr(lines) == <<"str", lines>>

PyWord(word) == PyStr(<<<<"text", word>>>>)

PyInt(v) == <<"int", v>>

PyList(items) == <<"list", items>>

\* A dict: its items in insertion order.
PyDict(items) == <<"dict", items>>

\* d[key] = value
DictSet(items, key, value) ==
    IF \E i \in DOMAIN items : items[i][1] = key
    THEN [i \in DOMAIN items |-> IF items[i][1] = key THEN <<key, value>> ELSE items[i]]
    ELSE Append(items, <<key, value>>)

OptPy(opt) == IF opt.some THEN PyStr(opt.text) ELSE PyNone

RequirementPy(r) ==
    PyDict(<<<<"id", PyWord(r.id)>>, <<"requirement", PyStr(r.requirement)>>,
             <<"rationale", OptPy(r.rationale)>>, <<"impact", OptPy(r.impact)>>>>)

AntipatternPy(r) ==
    PyDict(<<<<"id", PyWord(r.id)>>, <<"antipattern", PyStr(r.antipattern)>>,
             <<"why", OptPy(r.why)>>, <<"instead", OptPy(r.instead)>>>>)

ExamplePy(e) ==
    PyDict(<<<<"id", PyStr(<<e.id>>)>>, <<"title", PyStr(e.title)>>,
             <<"language", PyWord(e.language)>>, <<"code", PyStr(e.code)>>,
             <<"explanation", PyStr(e.explanation)>>>>)

SectionValuePy(key, value) ==
    CASE key \in {"summary", "context"} -> OptPy(value)
      [] key = "requirements" -> PyList([i \in DOMAIN value |-> RequirementPy(value[i])])
      [] key = "antipatterns" -> PyList([i \in DOMAIN value |-> AntipatternPy(value[i])])
      [] key = "good_examples" -> PyList([i \in DOMAIN value |-> ExamplePy(value[i])])

\* rule_data['sections'], its keys in the order the requested sections set
\* them.
AddSection(before, entry) ==
    IF DOMAIN entry = {} THEN before
    ELSE LET key == CHOOSE k \in DOMAIN entry : TRUE
         IN  DictSet(before, key, SectionValuePy(key, entry[key]))

RECURSIVE SectionsPy(_, _)
SectionsPy(doc, sections) ==
    IF sections = <<>> THEN <<>>
    ELSE AddSection(SectionsPy(doc, SubSeq(sections, 1, Len(sections) - 1)),
                    ExtractSections(doc, <<sections[Len(sections)]>>))

\* bundle['rules'] as _build_bundle fills it: a later rule_data of an id
\* replaces the earlier one.
AddRule(before, index, id, sections) ==
    IF id \notin DOMAIN index THEN before
    ELSE IF index[id].file_path \notin DOMAIN RuleFiles THEN before
    ELSE DictSet(before, id,
            PyDict(<<<<"metadata",
                      PyDict(<<<<"rule_id", PyWord(id)>>,
                               <<"category", PyWord(index[id].category)>>,
                               <<"language", PyWord(index[id].language)>>,
                               <<"severity", PyWord(index[id].severity)>>>>)>>,
                     <<"sections",
                       PyDict(SectionsPy(RuleFiles[index[id].file_path], sections))>>>>))

RECURSIVE RulesPy(_, _, _)
RulesPy(index, rule_ids, sections) ==
    IF rule_ids = <<>> THEN <<>>
    ELSE AddRule(RulesPy(index, SubSeq(rule_ids, 1, Len(rule_ids) - 1), sections),
                 index, rule_ids[Len(rule_ids)], sections)

\* rule_info['file_path'].endswith(rule_path.name); the paths of the index
\* have no directory part and none is the tail of another.
PathEndsWith(file_path, name) == file_path = name

\* The ids create_named_bundle finds for the rule files: for each file the
\* first id of the index, in its order, whose file path ends with the name.
RECURSIVE RuleIdsOfFiles(_, _, _)
RuleIdsOfFiles(index, index_order, rule_files) ==
    IF rule_files = <<>> THEN <<>>
    ELSE LET hits == {i \in DOMAIN index_order :
                        PathEndsWith(index[index_order[i]].file_path, Head(rule_files))}
         IN  (IF hits = {} THEN <<>> ELSE <<index_order[Min(hits)]>>)
             \o RuleIdsOfFiles(index, index_order, Tail(rule_files))

DefaultNamedSections == <<"RULE_SUMMARY", "requirements", "antipatterns", "good_examples">>

\* The dict create_named_bundle builds, now being what datetime.now() gives.
named_bundle(index, index_order, name, rule_files, sections, now) ==
    LET used == IF sections = <<>> THEN DefaultNamedSections ELSE sections
        rule_ids == RuleIdsOfFiles(index, index_order, rule_files)
    IN  PyDict(<<<<"rules", PyDict(RulesPy(index, rule_ids, used))>>,
                 <<"metadata",
                   PyDict(<<<<"name", PyWord(name)>>,
                            <<"created", PyStr(<<<<"time", now>>>>)>>,
                            <<"rule_count", PyInt(Len(rule_ids))>>,
                            <<"sections", PyList([i \in DOMAIN used |-> PyWord(used[i])])>>>>)>>>>)

\* json.dumps: the JSON text, as the tree of its values.
RECURSIVE json_dumps(_)
json_dumps(v) ==
    CASE v[1] = "None" -> JNull
      [] v[1] = "str" -> JStr(v[2])
      [] v[1] = "int" -> JInt(v[2])
      [] v[1] = "list" -> JList([i \in DOMAIN v[2] |-> json_dumps(v[2][i])])
      [] v[1] = "dict" ->
            JObj([i \in DOMAIN v[2] |-> <<v[2][i][1], json_dumps(v[2][i][2])>>])

\* json.loads: an object becomes a dict, a later member of a name
\* replacing an earlier one.
RECURSIVE json_loads(_), LoadMembers(_)
json_loads(t) ==
    CASE t[1] = "null" -> PyNone
      [] t[1] = "str" -> PyStr(t[2])
      [] t[1] = "int" -> PyInt(t[2])
      [] t[1] = "list" -> PyList([i \in DOMAIN t[2] |-> json_loads(t[2][i])])
      [] t[1] = "obj" -> PyDict(LoadMembers(t[2]))

LoadMembers(members) ==
    IF members = <<>> THEN <<>>
    ELSE LET last == members[Len(members)]
         IN  DictSet(LoadMembers(SubSeq(members, 1, Len(members) - 1)),
                     last[1], json_loads(last[2]))

\* bundles_dir / f"{name}.json"
BundlePath(name) == name \o ".json"

\* ------------------------------------------------------------------------
\* RuleBundler.optimize_bundle

Without(sections, key) == [k \in DOMAIN sections \ {key} |-> sections[k]]

WithSections(b, i, sections) ==
    [b EXCEPT !.rules[i].sections = sections]

\* One of the first two loops, from rule i on: delete the key from each
\* rule that has it, and stop as soon as the estimate fits.
RECURSIVE DropLoop(_, _, _, _)
DropLoop(b, key, i, m) ==
    IF i > Len(b.rules) THEN [bundle |-> b, done |-> FALSE]
    ELSE IF key \notin DOMAIN b.rules[i].sections THEN DropLoop(b, key, i + 1, m)
    ELSE LET b2 == WithSections(b, i, Without(b.rules[i].sections, key))
         IN  IF estimate_tokens(b2) <= m THEN [bundle |-> b2, done |-> TRUE]
             ELSE DropLoop(b2, key, i + 1, m)

\* A variant that takes the last three.
FirstThree_LastThree(list) ==
    SubSeq(list, IF Len(list) < 3 THEN 1 ELSE Len(list) - 2, Len(list))

\* list[:3]
FirstThree(list) ==
    SubSeq(list, 1, IF Len(list) < 3 THEN Len(list) ELSE 3)

\* A variant of the third loop that takes the second and later records.
Collapsed_DropFirst(sections) ==
    (IF "summary" \in DOMAIN sections THEN "summary" :> sections["summary"] ELSE << >>)
    @@ (IF "antipatterns" \in DOMAIN sections /\ Len(sections["antipatterns"]) > 0
        THEN "antipatterns" :> Tail(sections["antipatterns"])
        ELSE IF "requirements" \in DOMAIN sections /\ Len(sections["requirements"]) > 0
        THEN "requirements" :> Tail(sections["requirements"])
        ELSE << >>)

\* The third loop's new_sections of one rule.
Collapsed(sections) ==
    (IF "summary" \in DOMAIN sections THEN "summary" :> sections["summary"] ELSE << >>)
    @@ (IF "antipatterns" \in DOMAIN sections /\ Len(sections["antipatterns"]) > 0
        THEN "antipatterns" :> FirstThree(sections["antipatterns"])
        ELSE IF "requirements" \in DOMAIN sections
        THEN "requirements" :> FirstThree(sections["requirements"])
        ELSE << >>)

CollapseAll(b) ==
    [b EXCEPT !.rules = [i \in DOMAIN b.rules |->
                            [b.rules[i] EXCEPT !.sections = Collapsed(b.rules[i].sections)]]]

\* A variant that runs the context loop before the good_examples loop.
optimize_bundle_ContextFirst(b, m) ==
    IF estimate_tokens(b) <= m THEN b
    ELSE LET s1 == DropLoop(b, "context", 1, m)
         IN  IF s1.done THEN s1.bundle
             ELSE LET s2 == DropLoop(s1.bundle, "good_examples", 1, m)
                  IN  IF s2.done THEN s2.bundle
                      ELSE CollapseAll(s2.bundle)

\* The content of the bundle optimize_bundle returns.  The copy it works on
\* is shallow: the rules of the returned bundle are the rule objects of the
\* bundle given.
optimize_bundle(b, m) ==
    IF estimate_tokens(b) <= m THEN b
    ELSE LET s1 == DropLoop(b, "good_examples", 1, m)
         IN  IF s1.done THEN s1.bundle
             ELSE LET s2 == DropLoop(s1.bundle, "context", 1, m)
                  IN  IF s2.done THEN s2.bundle
                      ELSE CollapseAll(s2.bundle)

\* ------------------------------------------------------------------------
\* RuleDiffer

\* The entries Entry(id) of the ids of order that pass Test, in that order.
Entries(order, Test(_), Entry(_)) ==
    LET upTo[i \in 0..Len(order)] ==
            IF i = 0 THEN <<>>
            ELSE upTo[i - 1] \o (IF Test(order[i]) THEN <<Entry(order[i])>> ELSE <<>>)
    IN  upTo[Len(order)]

\* {r['id']: r for r in records}: a later record of an id replaces an
\* earlier one.
ById(records) ==
    [id \in {records[i].id : i \in DOMAIN records} |->
        records[CHOOSE i \in DOMAIN records :
                   /\ records[i].id = id
                   /\ \A j \in DOMAIN records : records[j].id = id => j <= i]]

diff_metadata(meta1, meta2) ==
    LET m1 == meta1.fields
        m2 == meta2.fields
    IN  [added |-> [k \in DOMAIN m2 \ DOMAIN m1 |-> m2[k]],
         removed |-> [k \in DOMAIN m1 \ DOMAIN m2 |-> m1[k]],
         modified |-> [k \in {x \in DOMAIN m1 \cap DOMAIN m2 : m1[x] # m2[x]} |->
                          [old |-> m1[k], new |-> m2[k]]]]

\* SequenceMatcher(None, text1, text2).ratio(): 1.0 for equal texts, and
\* below 1.0 otherwise.
calculate_similarity(text1, text2) == IF text1 = text2 THEN "1.0" ELSE "below 1.0"

\* A variant that reports every id of both documents as modified.
diff_requirements_AllCommonModified(reqs1, reqs2, order) ==
    LET by1 == ById(reqs1)
        by2 == ById(reqs2)
        isAdded(id) == id \notin DOMAIN by1
        isRemoved(id) == id \in DOMAIN by1 /\ id \notin DOMAIN by2
        isModified(id) == id \in DOMAIN by1 /\ id \in DOMAIN by2
        new(id) == by2[id]
        old(id) == by1[id]
        change(id) == [id |-> id, old |-> by1[id], new |-> by2[id],
                       similarity |-> calculate_similarity(by1[id].requirement,
                                                           by2[id].requirement)]
    IN  [added |-> Entries(order, isAdded, new),
         removed |-> Entries(order, isRemoved, old),
         modified |-> Entries(order, isModified, change)]

\* order is the order in which the set of ids is iterated.
diff_requirements(reqs1, reqs2, order) ==
    LET by1 == ById(reqs1)
        by2 == ById(reqs2)
        isAdded(id) == id \notin DOMAIN by1
        isRemoved(id) == id \in DOMAIN by1 /\ id \notin DOMAIN by2
        isModified(id) == id \in DOMAIN by1 /\ id \in DOMAIN by2 /\ by1[id] # by2[id]
        new(id) == by2[id]
        old(id) == by1[id]
        change(id) == [id |-> id, old |-> by1[id], new |-> by2[id],
                       similarity |-> calculate_similarity(by1[id].requirement,
                                                           by2[id].requirement)]
    IN  [added |-> Entries(order, isAdded, new),
         removed |-> Entries(order, isRemoved, old),
         modified |-> Entries(order, isModified, change)]

diff_antipatterns(ants1, ants2, order) ==
    LET by1 == ById(ants1)
        by2 == ById(ants2)
        isAdded(id) == id \notin DOMAIN by1
        isRemoved(id) == id \in DOMAIN by1 /\ id \notin DOMAIN by2
        isModified(id) == id \in DOMAIN by1 /\ id \in DOMAIN by2 /\ by1[id] # by2[id]
        new(id) == by2[id]
        old(id) == by1[id]
        change(id) == [id |-> id, old |-> by1[id], new |-> by2[id]]
    IN  [added |-> Entries(order, isAdded, new),
         removed |-> Entries(order, isRemoved, old),
         modified |-> Entries(order, isModified, change)]

\* A variant whose removed count is the plain difference.
ExampleCounts_NoFloor(before, after) ==
    [added |-> Len(after) - Len(before),
     removed |-> Len(before) - Len(after),
     total_before |-> Len(before),
     total_after |-> Len(after)]

ExampleCounts(before, after) ==
    [added |-> Len(after) - Len(before),
     removed |-> IF Len(after) >= Len(before) THEN 0 ELSE Len(before) - Len(after),
     total_before |-> Len(before),
     total_after |-> Len(after)]

diff_examples(data1, data2) ==
    [good_examples |-> ExampleCounts(data1.good_examples, data2.good_examples),
     bad_examples |-> ExampleCounts(data1.bad_examples, data2.bad_examples)]

\* meta.get(key): the value, or None when the key is missing.
MetaGet(meta, key) ==
    IF key \in DOMAIN meta.fields THEN [none |-> FALSE, value |-> meta.fields[key]]
    ELSE [none |-> TRUE, value |-> ""]

\* A value as an f-string prints it.
Format(v) == IF v.none THEN "None" ELSE v.value

\* The string "<Field> changed from <old> to <new>".
ChangedFromTo(field, old, new) ==
    [field |-> field, old |-> Format(old), new |-> Format(new)]

\* A variant that lists a category change as breaking too.
generate_summary_CategoryBreaking(data1, data2) ==
    LET meta1 == data1.metadata
        meta2 == data2.metadata
        changed(key) == MetaGet(meta1, key) # MetaGet(meta2, key)
        entry(field, key) ==
            IF changed(key)
            THEN <<ChangedFromTo(field, MetaGet(meta1, key), MetaGet(meta2, key))>>
            ELSE <<>>
    IN  [severity_changed |-> changed("severity"),
         category_changed |-> changed("category"),
         language_changed |-> changed("language"),
         breaking_changes |->
            entry("Severity", "severity") \o entry("Category", "category")
            \o entry("Language", "language")]

generate_summary(data1, data2) ==
    LET meta1 == data1.metadata
        meta2 == data2.metadata
        changed(key) == MetaGet(meta1, key) # MetaGet(meta2, key)
    IN  [severity_changed |-> changed("severity"),
         category_changed |-> changed("category"),
         language_changed |-> changed("language"),
         breaking_changes |->
            (IF changed("severity")
             THEN <<ChangedFromTo("Severity", MetaGet(meta1, "severity"),
                                  MetaGet(meta2, "severity"))>>
             ELSE <<>>)
            \o (IF changed("language")
                THEN <<ChangedFromTo("Language", MetaGet(meta1, "language"),
                                     MetaGet(meta2, "language"))>>
                ELSE <<>>)]

IdsOf(records1, records2) ==
    {records1[i].id : i \in DOMAIN records1} \cup {records2[i].id : i \in DOMAIN records2}

NoDiff ==
    [raised |-> "", done |-> FALSE,
     metadata_changes |-> [added |-> << >>, removed |-> << >>, modified |-> << >>],
     requirement_changes |-> [added |-> <<>>, removed |-> <<>>, modified |-> <<>>],
     antipattern_changes |-> [added |-> <<>>, removed |-> <<>>, modified |-> <<>>],
     example_changes |-> [good_examples |-> ExampleCounts(<<>>, <<>>),
                          bad_examples |-> ExampleCounts(<<>>, <<>>)],
     summary |-> [severity_changed |-> FALSE, category_changed |-> FALSE,
                  language_changed |-> FALSE, breaking_changes |-> <<>>]]

\* diff_rules, the id sets being iterated in the orders req_order and
\* ant_order.  meta1.keys() raises AttributeError when the metadata is None
\* or a string.
diff_rules(doc1, doc2, req_order, ant_order) ==
    LET data1 == extract_all(doc1)
        data2 == extract_all(doc2)
    IN  IF ~data1.metadata.mapping \/ ~data2.metadata.mapping
        THEN [NoDiff EXCEPT !.raised = "AttributeError"]
        ELSE [raised |-> "", done |-> TRUE,
              metadata_changes |-> diff_metadata(data1.metadata, data2.metadata),
              requirement_changes |->
                 diff_requirements(data1.requirements, data2.requirements, req_order),
              antipattern_changes |->
                 diff_antipatterns(data1.antipatterns, data2.antipatterns, ant_order),
              example_changes |-> diff_examples(data1, data2),
              summary |-> generate_summary(data1, data2)]

\* ------------------------------------------------------------------------
\* RuleValidator

DigitChars == <<"0", "1", "2", "3", "4", "5", "6", "7", "8", "9">>

DigitValue(c) == (CHOOSE i \in DOMAIN DigitChars : DigitChars[i] = c) - 1

\* int(digits)
RECURSIVE ToInt(_)
ToInt(digits) ==
    IF digits = <<>> THEN 0
    ELSE 10 * ToInt(SubSeq(digits, 1, Len(digits) - 1)) + DigitValue(digits[Len(digits)])

RECURSIVE Decimal(_)
Decimal(n) ==
    IF n < 10 THEN <<DigitChars[n + 1]>>
    ELSE Decimal(n \div 10) \o <<DigitChars[(n % 10) + 1]>>

\* f"{n:03d}"
Pad3(n) ==
    LET d == Decimal(n)
    IN  IF Len(d) >= 3 THEN d ELSE [i \in 1..(3 - Len(d)) |-> "0"] \o d

\* The line an end marker was appended to.
RECURSIVE Base(_)
Base(line) == IF line[1] = "glued" THEN Base(line[2]) ELSE line

\* "## NAME" in content  and  "### NAME" in content
InContentH2(doc, name) ==
    \E i \in DOMAIN doc : Base(doc[i])[1] \in {"h2", "h3"} /\ Base(doc[i])[2] = name

InContentH3(doc, name) ==
    \E i \in DOMAIN doc : Base(doc[i])[1] = "h3" /\ Base(doc[i])[2] = name

\* re.findall(r'\*\*\[(REQ\d+)\]\*\*', content): the digits of the tags of
\* a family, in order.
RECURSIVE TaggedIds(_, _)
TaggedIds(doc, prefix) ==
    IF doc = <<>> THEN <<>>
    ELSE LET line == Base(Head(doc))
         IN  (IF line[1] = "item" /\ line[2][1] = prefix /\ line[2][2] # <<>>
              THEN <<line[2][2]>> ELSE <<>>)
             \o TaggedIds(Tail(doc), prefix)

\* re.findall(r'<!-- EXTRACT:(\w+):(start|end) -->', content) as a set
RECURSIVE GluedMarkers(_)
GluedMarkers(line) ==
    IF line[1] = "glued" THEN {<<"requirements", "end">>} \cup GluedMarkers(line[2])
    ELSE IF line[1] \in {"start", "end"} THEN {<<line[2], line[1]>>}
    ELSE {}

Markers(doc) == UNION {GluedMarkers(doc[i]) : i \in DOMAIN doc}

HeadingCount(doc, kind) == Cardinality({i \in DOMAIN doc : Base(doc[i])[1] = kind})

Message(msg, name, expected, found) ==
    [msg |-> msg, name |-> name, expected |-> expected, found |-> found]

\* The schema files are not in the repository: the schemas are {}.
required_fields == <<>>

required_sections == <<>>

\* RuleValidator._extract_metadata
validator_extract_metadata(doc) ==
    IF doc # <<>> /\ doc[1][1] = "dash"
    THEN LET ends == {j \in 2..Len(doc) : doc[j][1] = "dash"}
         IN  IF ends # {} THEN yaml_safe_load(SubSeq(doc, 2, Min(ends) - 1))
             ELSE YamlNull
    ELSE YamlNull

\* RuleValidator._validate_metadata: with no properties in the schema no
\* field value is validated.
validate_metadata(metadata) ==
    LET missing(field) == field \notin DOMAIN metadata.fields
        error(field) == Message("Missing required metadata field", field, <<>>, <<>>)
    IN  Entries(required_fields, missing, error)

\* RuleValidator._validate_content_structure
validate_content_structure(doc) ==
    LET missing(section) == ~InContentH2(doc, section)
        error(section) == Message("Missing required section", section, <<>>, <<>>)
    IN  [errors |-> Entries(required_sections, missing, error),
         warnings |->
            (IF /\ InContentH2(doc, "MUST_FOLLOW") /\ ~InContentH3(doc, "MUST_FOLLOW")
                /\ TaggedIds(doc, "REQ") = <<>>
             THEN <<Message("section should use REQ### format", "MUST_FOLLOW", <<>>, <<>>)>>
             ELSE <<>>)
            \o (IF /\ InContentH2(doc, "MUST_NOT_DO") /\ ~InContentH3(doc, "MUST_NOT_DO")
                   /\ TaggedIds(doc, "ANT") = <<>>
                THEN <<Message("section should use ANT### format", "MUST_NOT_DO", <<>>, <<>>)>>
                ELSE <<>>)]

StandardNames == {"requirements", "antipatterns", "patterns", "metrics"}

StartMarkers(doc) == {m[1] : m \in {x \in Markers(doc) : x[2] = "start"}}

EndMarkers(doc) == {m[1] : m \in {x \in Markers(doc) : x[2] = "end"}}

\* RuleValidator._validate_extraction_markers, the sets start_markers and
\* end_markers being iterated in the orders start_order and end_order.
validate_extraction_markers(doc, start_order, end_order) ==
    LET noEnd(marker) == marker \notin EndMarkers(doc)
        noStart(marker) == marker \notin StartMarkers(doc)
        missingEnd(marker) == Message("Missing end marker for EXTRACT", marker, <<>>, <<>>)
        missingStart(marker) == Message("Missing start marker for EXTRACT", marker, <<>>, <<>>)
        nonStandard(marker) == marker \notin StandardNames
        warning(marker) == Message("Non-standard extraction marker", marker, <<>>, <<>>)
    IN  [errors |-> Entries(start_order, noEnd, missingEnd)
                    \o Entries(end_order, noStart, missingStart),
         warnings |-> Entries(start_order, nonStandard, warning)]

\* A variant that tests every position and reports each mismatch.
check_sequential_ids_EveryGap(ids, prefix) ==
    LET numbers == SortSeq([i \in DOMAIN ids |-> ToInt(ids[i])], <)
        bad(i) == numbers[i] # i
        warning(i) == Message("IDs are not sequential", prefix, Pad3(i), Pad3(numbers[i]))
    IN  Entries([i \in DOMAIN numbers |-> i], bad, warning)

\* RuleValidator._check_sequential_ids
check_sequential_ids(ids, prefix) ==
    LET numbers == SortSeq([i \in DOMAIN ids |-> ToInt(ids[i])], <)
        bad == {i \in DOMAIN numbers : numbers[i] # i}
    IN  IF bad = {} THEN <<>>
        ELSE <<Message("IDs are not sequential", prefix,
                       Pad3(Min(bad)), Pad3(numbers[Min(bad)]))>>

\* RuleValidator._validate_id_formats
validate_id_formats(doc) ==
    check_sequential_ids(TaggedIds(doc, "REQ"), "REQ")
    \o check_sequential_ids(TaggedIds(doc, "ANT"), "ANT")
    \o (IF HeadingCount(doc, "hgood") < 2
        THEN <<Message("Should have at least 2 GOOD_EXAMPLE sections", "", <<>>, <<>>)>>
        ELSE <<>>)
    \o (IF HeadingCount(doc, "hbad") < 1
        THEN <<Message("Should have at least 1 BAD_EXAMPLE section", "", <<>>, <<>>)>>
        ELSE <<>>)

\* RuleValidator.validate_file: the lists (errors, warnings) it returns, or
\* what it raises.  A front matter that loads as a string is true, and
\* _validate_metadata raises AttributeError at metadata.items().
validate_file(file, start_order, end_order) ==
    IF ~file.exists
    THEN [errors |-> <<Message("File not found", "", <<>>, <<>>)>>, warnings |-> <<>>,
          raised |-> ""]
    ELSE LET doc == file.content
             metadata == validator_extract_metadata(doc)
             structure == validate_content_structure(doc)
             markers == validate_extraction_markers(doc, start_order, end_order)
         IN  IF ~metadata.null /\ ~metadata.mapping
             THEN [errors |-> <<>>, warnings |-> <<>>, raised |-> "AttributeError"]
             ELSE [errors |->
                      (IF ~metadata.null /\ DOMAIN metadata.fields # {}
                       THEN validate_metadata(metadata)
                       ELSE <<Message("No YAML front matter found", "", <<>>, <<>>)>>)
                      \o structure.errors \o markers.errors,
                   warnings |-> structure.warnings \o markers.warnings
                                \o validate_id_formats(doc),
                   raised |-> ""]

\* A variant that goes on with the lists the validator has.
StartLists_KeepLists(own) ==
    [errors |-> own.errors, warnings |-> own.warnings, fresh |-> FALSE]

\* The lists a validate_file call works on.  The code binds self.errors and
\* self.warnings to new empty lists, so the lists an earlier call returned
\* are other objects than the ones this call fills.
StartLists(own) ==
    [errors |-> <<>>, warnings |-> <<>>, fresh |-> TRUE]

\* validate_file on a validator whose lists are own, result being what the
\* checks of the file append: the validator's lists after the call, and
\* whether they are new objects.
validate_file_reused(own, result) ==
    LET start == StartLists(own)
    IN  [errors |-> start.errors \o result.errors,
         warnings |-> start.warnings \o result.warnings,
         fresh |-> start.fresh,
         raised |-> result.raised]

\* re.sub(r'\*\*\[REQ(\d)\]\*\*', ...) and re.sub(r'\*\*\[REQ(\d\d)\]\*\*', ...)
\* (and the same for ANT): a tag of one or two digits is padded to three.
RECURSIVE PadLine(_)
PadLine(line) ==
    IF line[1] = "glued" THEN <<"glued", PadLine(line[2])>>
    ELSE IF line[1] = "item" /\ line[2][1] \in {"REQ", "ANT"} /\ Len(line[2][2]) = 1
    THEN <<"item", <<line[2][1], <<"0", "0">> \o line[2][2]>>>>
    ELSE IF line[1] = "item" /\ line[2][1] \in {"REQ", "ANT"} /\ Len(line[2][2]) = 2
    THEN <<"item", <<line[2][1], <<"0">> \o line[2][2]>>>>
    ELSE line

\* re.sub(r'### Good Example (\d)', ...) and re.sub(r'### Bad Example (\d)', ...)
RECURSIVE RenameLine(_)
RenameLine(line) ==
    IF line[1] = "glued" THEN <<"glued", RenameLine(line[2])>>
    ELSE IF line[1] = "hloosegood" THEN <<"hgood", "00" \o line[2]>>
    ELSE IF line[1] = "hloosebad" THEN <<"hbad", "00" \o line[2]>>
    ELSE line

\* content.replace('### MUST_FOLLOW\n', '### MUST_FOLLOW\n<!-- ...:start -->\n')
RECURSIVE AddStartMarkers(_)
AddStartMarkers(doc) ==
    IF doc = <<>> THEN <<>>
    ELSE (IF Head(doc) = <<"h3", "MUST_FOLLOW">>
          THEN <<Head(doc), <<"start", "requirements">>>>
          ELSE <<Head(doc)>>)
         \o AddStartMarkers(Tail(doc))

\* The line starts with "### " and MUST_FOLLOW does not follow.
IsOtherSubsection(line) ==
    \/ Base(line)[1] \in {"hgood", "hbad", "hloosegood", "hloosebad"}
    \/ Base(line)[1] = "h3" /\ Base(line)[2] # "MUST_FOLLOW"

\* re.search(r'\n### (?!MUST_FOLLOW)', content) and the insertion of the end
\* marker at its start: the marker goes on the end of the line before the
\* heading found, and an empty line follows it.
AddEndMarker(doc) ==
    LET found == {i \in 2..Len(doc) : IsOtherSubsection(doc[i])}
    IN  IF found = {} THEN doc
        ELSE LET i == Min(found)
                 glued == IF doc[i - 1] = <<"blank", "">>
                          THEN <<"end", "requirements">>
                          ELSE <<"glued", doc[i - 1]>>
             IN  SubSeq(doc, 1, i - 2) \o <<glued, <<"blank", "">>>>
                 \o SubSeq(doc, i, Len(doc))

\* RuleValidator.fix_common_issues: the content it ends with.
fix_common_issues(doc) ==
    LET renamed == [i \in DOMAIN doc |-> RenameLine(PadLine(doc[i]))]
    IN  IF /\ InContentH2(renamed, "MUST_FOLLOW")
           /\ <<"requirements", "start">> \notin Markers(renamed)
        THEN AddEndMarker(AddStartMarkers(renamed))
        ELSE renamed

\* ------------------------------------------------------------------------
\* validate_all_rules and RuleDiffer.compare_category: the runs over every
\* rule file.  A directory entry is a record [rule_id, category, severity,
\* file]; the entries stand in the order of their paths, which is also the
\* order of the index, and no two have the same rule id.

\* validate_all_rules: the sorted files the glob finds are validated by one
\* validator, in order.  results[k] is what validate_file does with the
\* k-th file; a call that raises ends the run, and nothing after it is
\* validated or printed.
GlobbedFiles(entries) ==
    LET found == SelectSeq(entries, LAMBDA e : e.file.exists)
    IN  [k \in DOMAIN found |-> found[k].file]

RaisingCalls(results) == {k \in DOMAIN results : results[k].raised # ""}

validate_all_rules(results) ==
    LET raising == RaisingCalls(results)
        done == IF raising = {} THEN Len(results) ELSE Min(raising) - 1
        returned_lists == [k \in 1..done |->
                              [errors |-> results[k].errors,
                               warnings |-> results[k].warnings]]
    IN  [report |-> returned_lists,
         raised |-> IF raising = {} THEN "" ELSE results[Min(raising)].raised,
         all_valid |-> /\ raising = {}
                       /\ \A k \in 1..done : /\ results[k].errors = <<>>
                                             /\ results[k].warnings = <<>>]

\* The words of a line of a requirement text: an item reads  do this , a
\* text line is its one word.
LineWords(line) ==
    CASE line[1] = "item" -> {"do", "this"}
      [] line[1] = "text" -> {line[2]}
      [] OTHER -> {}

\* set(' '.join(reqs).lower().split())
WordsOf(reqs) ==
    UNION {UNION {LineWords(reqs[i].requirement[k]) :
                     k \in DOMAIN reqs[i].requirement} : i \in DOMAIN reqs}

RequirementWords(doc) == WordsOf(extract_requirements(doc))

\* A similarity is the fraction <<intersection, union>>; 0.0 is <<0, 1>>.
ZeroSimilarity == <<0, 1>>

\* Two empty word sets give 0.0, others the Jaccard index.
Jaccard(set1, set2) ==
    IF set1 = {} /\ set2 = {} THEN ZeroSimilarity
    ELSE <<Cardinality(set1 \cap set2), Cardinality(set1 \cup set2)>>

\* RuleDiffer._calculate_rule_similarity: the bare except turns every
\* failure to read or to parse a file into 0.0.
calculate_rule_similarity(file1, file2) ==
    IF ~file1.exists \/ ~file2.exists THEN ZeroSimilarity
    ELSE Jaccard(RequirementWords(file1.content), RequirementWords(file2.content))

Greater(x, y) == x[1] * y[2] > y[1] * x[2]

\* The pairs i < j of 1..n in the order of the two loops.
PairsInOrder(n) ==
    LET pairs == {pr \in (1..n) \X (1..n) : pr[1] < pr[2]}
        before(p1, p2) == p1[1] < p2[1] \/ (p1[1] = p2[1] /\ p1[2] < p2[2])
    IN  [k \in 1..Cardinality(pairs) |->
            CHOOSE pr \in pairs : Cardinality({q \in pairs : before(q, pr)}) = k - 1]

\* The comparisons of the pairs, as the loops append them.
Comparisons(rules, pairs) ==
    [k \in DOMAIN pairs |->
        [rule1 |-> rules[pairs[k][1]].rule_id,
         rule2 |-> rules[pairs[k][2]].rule_id,
         similarity |-> calculate_rule_similarity(rules[pairs[k][1]].file,
                                                  rules[pairs[k][2]].file),
         both_severity |-> rules[pairs[k][1]].severity = rules[pairs[k][2]].severity]]

\* sorted(list, key=similarity, reverse=True): by falling similarity, equal
\* ones keeping their order.
SortedBySimilarity(list) ==
    LET first(a, b) == \/ Greater(list[a].similarity, list[b].similarity)
                       \/ /\ ~Greater(list[b].similarity, list[a].similarity)
                          /\ a < b
        rank(a) == Cardinality({b \in DOMAIN list : b # a /\ first(b, a)}) + 1
    IN  [k \in DOMAIN list |-> list[CHOOSE a \in DOMAIN list : rank(a) = k]]

RulesOfCategory(entries, category) == SelectSeq(entries, LAMBDA e : e.category = category)

\* RuleDiffer.compare_category with no language: the rules of the category,
\* each pair i < j of them compared, and the comparisons sorted.
compare_category_of(rules) ==
    SortedBySimilarity(Comparisons(rules, PairsInOrder(Len(rules))))

compare_category(entries, category) ==
    compare_category_of(RulesOfCategory(entries, category))

\* ------------------------------------------------------------------------
\* The parts of the state a run does not use

NoCall == [op |-> "none", arg |-> ""]

NoAnalysis ==
    [context |-> NoMetadata.context, selected |-> {}, selected_rules |-> <<>>,
     sections |-> <<>>]

EmptyBundle == [rules |-> <<>>, metadata |-> NoMetadata]

ExtractorIdle == content = <<>> /\ call = NoCall /\ ret = None

BundlerIdle ==
    /\ rules_index = << >>
    /\ task = <<>>
    /\ analysis = NoAnalysis

OptimizerIdle == max_tokens = 0 /\ given = EmptyBundle /\ returned = <<>>

DifferIdle == rule1 = <<>> /\ rule2 = <<>> /\ diff_result = NoDiff

NoFile == [exists |-> FALSE, content |-> <<>>]

NoOutcome ==
    [op |-> "none", argv |-> <<>>, original |-> <<>>, fixed |-> FALSE,
     raised |-> "", exit_code |-> 0, all_valid |-> FALSE]

ValidatorIdle ==
    rule_file = NoFile /\ errors = <<>> /\ warnings = <<>> /\ outcome = NoOutcome

NoLoad == [op |-> "none", name |-> "", value |-> <<>>, raised |-> ""]

StoreIdle ==
    /\ bundles_dir = << >> /\ loaded = NoLoad /\ named = << >> /\ clock = 0
    /\ as_main = FALSE

BatchIdle == rules_dir = <<>> /\ report = <<>> /\ comparisons = <<>>

ReuseIdle == held = <<>>

SessionIdle == StoreIdle /\ BatchIdle /\ ReuseIdle

\* ------------------------------------------------------------------------
\* Section extraction over every document of at most MaxSectionLines lines

MaxSectionLines == 4

SectionNames == {"requirements", "metrics"}

SectionLines ==
    {<<"start", "requirements">>, <<"end", "requirements">>,
     <<"start", "metrics">>, <<"end", "metrics">>,
     <<"h2", "REQUIREMENTS">>, <<"h2", "METRICS">>, <<"h3", "Details">>,
     <<"text", "a">>, <<"text", "b">>, <<"blank", "">>}

InitSection ==
    /\ content \in SeqsUpTo(SectionLines, MaxSectionLines)
    /\ call = NoCall
    /\ ret = None
    /\ BundlerIdle /\ bundle = EmptyBundle /\ OptimizerIdle /\ DifferIdle /\ ValidatorIdle
    /\ SessionIdle

ExtractSection(n) ==
    /\ call = NoCall
    /\ call' = [op |-> "extract_section", arg |-> n]
    /\ ret' = extract_section(content, n)
    /\ UNCHANGED <<content, bundlerVars, optimizerVars, differVars, validatorVars, sessionVars>>

NextSection == \E n \in SectionNames : ExtractSection(n)

SpecSection == InitSection /\ [][NextSection]_vars

\* ------------------------------------------------------------------------
\* Example extraction over every document of at most MaxExampleLines lines

MaxExampleLines == 5

ExampleKinds == {"good", "bad"}

ExampleLines ==
    {<<"hgood", "1">>, <<"hgood", "2">>, <<"hbad", "1">>,
     <<"fence", "ts">>, <<"close", "">>,
     <<"why", "good">>, <<"why", "bad">>, <<"text", "a">>}

InitExamples ==
    /\ content \in SeqsUpTo(ExampleLines, MaxExampleLines)
    /\ call = NoCall
    /\ ret = None
    /\ BundlerIdle /\ bundle = EmptyBundle /\ OptimizerIdle /\ DifferIdle /\ ValidatorIdle
    /\ SessionIdle

ExtractExamples(kind) ==
    /\ call = NoCall
    /\ call' = [op |-> "extract_examples", arg |-> kind]
    /\ ret' = extract_examples(content, kind)
    /\ UNCHANGED <<content, bundlerVars, optimizerVars, differVars, validatorVars, sessionVars>>

NextExamples == \E kind \in ExampleKinds : ExtractExamples(kind)

SpecExamples == InitExamples /\ [][NextExamples]_vars

\* ------------------------------------------------------------------------
\* extract_all over every document of at most MaxAllLines lines

MaxAllLines == 4

AllLines ==
    {<<"h2", "RULE_SUMMARY">>, <<"h2", "REQUIREMENTS">>, <<"h2", "MUST_NOT_DO">>,
     <<"h2", "PATTERNS">>, <<"item", "REQ001">>, <<"item", "ANT001">>,
     <<"pgood", "1">>, <<"text", "a">>,
     <<"hgood", "1">>, <<"fence", "ts">>, <<"close", "">>, <<"why", "good">>}

InitAll ==
    /\ content \in SeqsUpTo(AllLines, MaxAllLines)
    /\ call = NoCall
    /\ ret = None
    /\ BundlerIdle /\ bundle = EmptyBundle /\ OptimizerIdle /\ DifferIdle /\ ValidatorIdle
    /\ SessionIdle

ExtractAll ==
    /\ call = NoCall
    /\ call' = [op |-> "extract_all", arg |-> ""]
    /\ ret' = extract_all(content)
    /\ UNCHANGED <<content, bundlerVars, optimizerVars, differVars, validatorVars, sessionVars>>

NextAll == ExtractAll

SpecAll == InitAll /\ [][NextAll]_vars

\* ------------------------------------------------------------------------
\* bundle_for_task over the tasks of at most MaxTaskWords words

Tasks(words, n) == {JoinWords(ws) : ws \in SeqsUpTo(words, n)}

MaxTaskWords == 2

TaskWords ==
    {<<"R", "e", "v", "i", "e", "w">>,
     <<"a", "u", "d", "i", "t">>,
     <<"c", "r", "e", "a", "t", "e">>,
     <<"w", "r", "i", "t", "e">>,
     <<"f", "i", "x">>,
     <<"u", "p", "d", "a", "t", "e">>,
     <<"e", "x", "p", "l", "a", "i", "n">>,
     <<"u", "n", "d", "e", "r", "s", "t", "a", "n", "d">>,
     <<"p", "r", "e", "v", "i", "e", "w">>,
     <<"c", "o", "d", "e">>,
     <<"t", "y", "p", "e", "s", "c", "r", "i", "p", "t">>,
     <<"t", "e", "s", "t", "i", "n", "g">>}

IndexEntry(path, lang, cat, tags, prereqs) ==
    [file_path |-> path, language |-> lang, category |-> cat, severity |-> "error",
     tags |-> tags, prerequisites |-> prereqs]

TaskIndexes ==
    {[id \in {"ts-naming", "uni-naming"} |->
        IF id = "ts-naming"
        THEN IndexEntry("a.md", "typescript", "test-naming", <<<<"j", "e", "s", "t">>>>, {"uni-naming"})
        ELSE IndexEntry(path, "universal", "test-naming", <<>>, {})]
     : path \in {"b.md", "gone.md"}}

InitTask ==
    /\ ExtractorIdle /\ OptimizerIdle /\ DifferIdle /\ ValidatorIdle
    /\ SessionIdle
    /\ rules_index \in TaskIndexes
    /\ task \in Tasks(TaskWords, MaxTaskWords)
    /\ analysis = NoAnalysis
    /\ bundle = EmptyBundle

BundleForTask ==
    /\ analysis = NoAnalysis
    /\ LET context == analyze_task(task)
           selected == ScoreSelected(rules_index, context)
           ids == select_rules_for_context(rules_index, context)
       IN  \E selected_rules \in Orderings(ids) :
              /\ analysis' = [context |-> context, selected |-> selected,
                              selected_rules |-> selected_rules,
                              sections |-> determine_sections_for_task(task)]
              /\ bundle' = bundle_for_task(rules_index, task, selected_rules)
    /\ UNCHANGED <<rules_index, task, extractorVars, optimizerVars, differVars, validatorVars, sessionVars>>

NextTask == BundleForTask

SpecTask == InitTask /\ [][NextTask]_vars

\* ------------------------------------------------------------------------
\* Rule selection over a family of rule indexes

MaxSelectWords == 2

SelectWords ==
    {<<"n", "a", "m", "i", "n", "g">>, <<"t", "y", "p", "e", "s", "c", "r", "i", "p", "t">>, <<"t", "e", "s", "t", "i", "n", "g">>, <<"f", "i", "x">>}

SelectIndexes ==
    {[id \in {"r1", "r2", "r3"} |->
        CASE id = "r1" -> IndexEntry("a.md", lang, cat, tags, pre1)
          [] id = "r2" -> IndexEntry("b.md", "python", "security", tags2, pre2)
          [] id = "r3" -> IndexEntry("gone.md", "universal", "git-workflow", <<>>, pre3)]
     : lang \in {"typescript", "universal", "python"},
       cat \in {"test-naming", "code-quality"},
       tags \in {<<>>, <<<<"N", "a", "m", "i", "n", "g">>, <<"j", "e", "s", "t">>>>},
       pre1 \in {{}, {"r2"}},
       tags2 \in {<<>>, <<<<"n", "a", "m", "i", "n", "g">>>>},
       pre2 \in {{}, {"r3"}},
       pre3 \in {{}, {"r1"}, {"r9"}}}

InitSelect ==
    /\ ExtractorIdle /\ OptimizerIdle /\ DifferIdle /\ ValidatorIdle
    /\ SessionIdle
    /\ rules_index \in SelectIndexes
    /\ task \in Tasks(SelectWords, MaxSelectWords)
    /\ analysis = NoAnalysis
    /\ bundle = EmptyBundle

SpecSelect == InitSelect /\ [][NextTask]_vars

\* ------------------------------------------------------------------------
\* optimize_bundle, called twice with the same max_tokens, over the bundles
\* of the rules BundleRuleIds whose lists have 0 or MaxItems records

MaxItems == 4

MaxBudgetSteps == 7

ItemIds == <<"A001", "A002", "A003", "A004", "A005", "A006">>

BundleRuleIds == <<"r1", "r2">>

ItemsDoc(heading, n) ==
    <<<<"h2", heading>>>> \o [i \in 1..n |-> <<"item", ItemIds[i]>>]

SectionValue(key, nreq, nant) ==
    CASE key = "summary" -> extract_section(RuleFiles["a.md"], "RULE_SUMMARY")
      [] key = "requirements" -> extract_requirements(ItemsDoc("REQUIREMENTS", nreq))
      [] key = "antipatterns" -> extract_antipatterns(ItemsDoc("ANTIPATTERNS", nant))
      [] key = "good_examples" -> SubSeq(extract_examples(RuleFiles["a.md"], "good"), 1, 1)
      [] key = "context" -> extract_section(RuleFiles["a.md"], "CONTEXT_AND_RATIONALE")

RuleSections ==
    {[key \in keys \cup {"summary"} |-> SectionValue(key, nreq, nant)] :
        keys \in SUBSET {"requirements", "antipatterns", "good_examples", "context"},
        nreq \in {0, MaxItems}, nant \in {0, MaxItems}}

BundleRule(id, sections) ==
    [id |-> id,
     metadata |-> [rule_id |-> id, category |-> "test-naming",
                   language |-> "typescript", severity |-> "error"],
     sections |-> sections]

TaskMetadata ==
    [present |-> TRUE, task |-> <<"f", "i", "x">>,
     context |-> [action |-> "fix", languages |-> <<>>, categories |-> <<>>,
                  keywords |-> <<>>],
     token_estimate |-> 0, rule_count |-> 0]

OptimizeBundles ==
    {[rules |-> [i \in 1..n |-> BundleRule(BundleRuleIds[i], secs[i])], metadata |-> m] :
        n \in 0..Len(BundleRuleIds), secs \in [1..Len(BundleRuleIds) -> RuleSections],
        m \in {NoMetadata, TaskMetadata}}

Budgets == {40 * k : k \in 0..MaxBudgetSteps}

InitOptimize ==
    /\ ExtractorIdle /\ BundlerIdle /\ DifferIdle /\ ValidatorIdle
    /\ SessionIdle
    /\ bundle \in OptimizeBundles
    /\ max_tokens \in Budgets
    /\ given = bundle
    /\ returned = <<>>

\* r = optimize_bundle(bundle, max_tokens).  The rules of r are the rule
\* objects of bundle, so bundle has the content of r afterwards.
OptimizeBundle ==
    /\ returned = <<>>
    /\ returned' = <<optimize_bundle(bundle, max_tokens)>>
    /\ bundle' = optimize_bundle(bundle, max_tokens)
    /\ UNCHANGED <<max_tokens, given, rules_index, task, analysis, extractorVars, differVars, validatorVars, sessionVars>>

\* optimize_bundle(r, max_tokens), r being the bundle the first call returned.
OptimizeAgain ==
    /\ Len(returned) = 1
    /\ returned' = Append(returned, optimize_bundle(bundle, max_tokens))
    /\ bundle' = optimize_bundle(bundle, max_tokens)
    /\ UNCHANGED <<max_tokens, given, rules_index, task, analysis, extractorVars, differVars, validatorVars, sessionVars>>

NextOptimize == OptimizeBundle \/ OptimizeAgain

SpecOptimize == InitOptimize /\ [][NextOptimize]_vars

\* ------------------------------------------------------------------------
\* diff_rules over pairs of documents made of a front matter, a
\* requirements section, an antipatterns section and examples

DiffFronts ==
    {<<>>,
     <<<<"dash", "">>, <<"dash", "">>>>,
     <<<<"dash", "">>, <<"severity", "error">>, <<"dash", "">>>>,
     <<<<"dash", "">>, <<"severity", "warning">>, <<"dash", "">>>>,
     <<<<"dash", "">>, <<"severity", "error">>, <<"category", "naming">>, <<"dash", "">>>>,
     <<<<"dash", "">>, <<"severity", "error">>, <<"category", "quality">>, <<"dash", "">>>>,
     <<<<"dash", "">>, <<"severity", "error">>, <<"language", "ts">>, <<"dash", "">>>>}

DiffRequirements ==
    {<<>>,
     <<<<"item", "REQ001">>>>,
     <<<<"item", "REQ002">>>>,
     <<<<"item", "REQ001">>, <<"rationale", "clarity">>>>,
     <<<<"item", "REQ001">>, <<"item", "REQ002">>>>,
     <<<<"item", "REQ002">>, <<"item", "REQ001">>>>,
     <<<<"item", "REQ001">>, <<"rationale", "clarity">>, <<"item", "REQ001">>>>}

DiffAntipatterns ==
    {<<>>,
     <<<<"item", "ANT001">>>>,
     <<<<"item", "ANT001">>, <<"because", "unclear">>>>}

\* The numbers of good and of bad examples of a document.
DiffExampleCounts == {<<0, 0>>, <<1, 0>>, <<2, 1>>, <<1, 2>>}

ExampleNumbers == <<"1", "2", "3">>

ExampleBlocks(heading, kind, n) ==
    LET block(k) == <<<<heading, ExampleNumbers[k]>>, <<"fence", "ts">>, <<"text", "it()">>,
                      <<"close", "">>, <<"why", kind>>>>
        upTo[k \in 0..n] == IF k = 0 THEN <<>> ELSE upTo[k - 1] \o block(k)
    IN  upTo[n]

DiffDocument(front, reqs, ants, counts) ==
    front \o <<<<"h2", "REQUIREMENTS">>>> \o reqs
          \o <<<<"h2", "ANTIPATTERNS">>>> \o ants
          \o ExampleBlocks("hgood", "good", counts[1])
          \o ExampleBlocks("hbad", "bad", counts[2])

PlainFront == <<<<"dash", "">>, <<"severity", "error">>, <<"dash", "">>>>

\* The documents that differ in their records, and those that differ in
\* their front matter and their examples.
DiffDocuments ==
    {DiffDocument(front, reqs, ants, <<0, 0>>) :
        front \in {<<>>, PlainFront}, reqs \in DiffRequirements, ants \in DiffAntipatterns}
    \cup {DiffDocument(front, <<<<"item", "REQ001">>>>, <<>>, counts) :
        front \in DiffFronts, counts \in DiffExampleCounts}

InitDiff ==
    /\ ExtractorIdle /\ BundlerIdle /\ bundle = EmptyBundle /\ OptimizerIdle
    /\ ValidatorIdle /\ SessionIdle
    /\ rule1 \in DiffDocuments
    /\ rule2 \in DiffDocuments
    /\ diff_result = NoDiff

DiffRules ==
    /\ diff_result = NoDiff
    /\ LET data1 == extract_all(rule1)
           data2 == extract_all(rule2)
       IN  \E req_order \in Orderings(IdsOf(data1.requirements, data2.requirements)),
              ant_order \in Orderings(IdsOf(data1.antipatterns, data2.antipatterns)) :
              diff_result' = diff_rules(rule1, rule2, req_order, ant_order)
    /\ UNCHANGED <<rule1, rule2, extractorVars, bundlerVars, optimizerVars, validatorVars, sessionVars>>

NextDiff == DiffRules

SpecDiff == InitDiff /\ [][NextDiff]_vars

\* ------------------------------------------------------------------------
\* The validator: validate-rule.py run on one rule file, through the class
\* (validate_file, fix_common_issues) or through the command line (main).

MaxMarkerLines == 3
MaxIdLines == 3

FileName == "rule.md"

ConformingExamples ==
    <<<<"hgood", "001">>, <<"text", "a">>, <<"hgood", "002">>, <<"text", "a">>,
      <<"hbad", "001">>, <<"text", "b">>>>

LooseExamples ==
    <<<<"hloosegood", "1">>, <<"text", "a">>, <<"hloosegood", "2">>, <<"text", "a">>,
      <<"hloosebad", "1">>, <<"text", "b">>>>

MarkerLines ==
    {<<"start", "requirements">>, <<"end", "requirements">>,
     <<"start", "custom">>, <<"end", "custom">>}

TaggedItems ==
    {<<"item", <<"REQ", <<"0", "0", "1">>>>>>, <<"item", <<"REQ", <<"0", "0", "2">>>>>>,
     <<"item", <<"REQ", <<"0", "0", "4">>>>>>, <<"item", <<"REQ", <<"1">>>>>>,
     <<"item", <<"ANT", <<"0", "0", "1">>>>>>, <<"item", <<"ANT", <<"0", "0", "2">>>>>>}

\* Documents that differ in their extraction markers.
MarkerDocuments ==
    {PlainFront \o markers \o ConformingExamples :
        markers \in SeqsUpTo(MarkerLines, MaxMarkerLines)}

\* Documents that differ in their tagged items.
IdDocuments ==
    {PlainFront \o heading \o items \o ConformingExamples :
        heading \in {<<>>, <<<<"h2", "MUST_FOLLOW">>>>},
        items \in SeqsUpTo(TaggedItems, MaxIdLines)}

\* Documents that differ in their front matter, sections and examples.
StructureDocuments ==
    {front \o heading \o items \o markers \o examples :
        front \in {<<>>, <<<<"dash", "">>, <<"dash", "">>>>, PlainFront},
        heading \in {<<>>, <<<<"h2", "MUST_FOLLOW">>>>, <<<<"h3", "MUST_FOLLOW">>>>,
                     <<<<"h2", "MUST_NOT_DO">>>>},
        items \in {<<>>, <<<<"item", <<"REQ", <<"0", "0", "1">>>>>>>>},
        markers \in {<<>>, <<<<"start", "requirements">>, <<"end", "requirements">>>>},
        examples \in {<<>>, ConformingExamples, LooseExamples,
                      <<<<"hgood", "001">>, <<"text", "a">>>>}}

\* Documents whose tagged items stand inside or outside the MUST_FOLLOW or
\* MUST_NOT_DO section.
SectionDocuments ==
    {PlainFront \o <<<<level, name>>>> \o inside \o <<<<"h2", "NOTES">>>> \o outside
         \o ConformingExamples :
        level \in {"h2", "h3"},
        name \in {"MUST_FOLLOW", "MUST_NOT_DO"},
        inside \in {<<>>, <<<<"item", <<"REQ", <<"0", "0", "1">>>>>>>>,
                    <<<<"item", <<"ANT", <<"0", "0", "1">>>>>>>>},
        outside \in {<<>>, <<<<"item", <<"REQ", <<"0", "0", "1">>>>>>>>,
                     <<<<"item", <<"ANT", <<"0", "0", "1">>>>>>>>}}

RuleFileContents ==
    MarkerDocuments \cup IdDocuments \cup StructureDocuments \cup SectionDocuments

\* The results validate_file can return, over the iteration orders of its
\* two sets of marker names.
Validated(file) ==
    {validate_file(file, start_order, end_order) :
        start_order \in Orderings(StartMarkers(file.content)),
        end_order \in Orderings(EndMarkers(file.content))}

InitValidate ==
    /\ ExtractorIdle /\ BundlerIdle /\ bundle = EmptyBundle /\ OptimizerIdle
    /\ DifferIdle /\ SessionIdle
    /\ \/ rule_file = NoFile
       \/ \E doc \in RuleFileContents : rule_file = [exists |-> TRUE, content |-> doc]
    /\ errors = <<>>
    /\ warnings = <<>>
    /\ outcome = NoOutcome

\* validator.validate_file(rule_file)
ValidateFile ==
    /\ outcome.op = "none"
    /\ \E result \in Validated(rule_file) :
          /\ errors' = result.errors
          /\ warnings' = result.warnings
          /\ outcome' = [NoOutcome EXCEPT !.op = "validate_file",
                                          !.raised = result.raised]
    /\ UNCHANGED <<rule_file, extractorVars, bundlerVars, optimizerVars, differVars, sessionVars>>

\* validator.fix_common_issues(rule_file); read_text raises when the file
\* does not exist.
FixCommonIssues ==
    /\ outcome.op = "none"
    /\ IF rule_file.exists
       THEN LET fixed == fix_common_issues(rule_file.content)
            IN  /\ rule_file' = [rule_file EXCEPT !.content = fixed]
                /\ outcome' = [NoOutcome EXCEPT !.op = "fix_common_issues",
                                                !.original = rule_file.content,
                                                !.fixed = (fixed # rule_file.content)]
       ELSE /\ rule_file' = rule_file
            /\ outcome' = [NoOutcome EXCEPT !.op = "fix_common_issues",
                                            !.raised = "FileNotFoundError"]
    /\ UNCHANGED <<errors, warnings, extractorVars, bundlerVars, optimizerVars,
                   differVars, sessionVars>>

\* A second fix_common_issues(rule_file) straight after the first.
FixAgain ==
    /\ outcome.op = "fix_common_issues" /\ outcome.raised = ""
    /\ LET fixed == fix_common_issues(rule_file.content)
       IN  /\ rule_file' = [rule_file EXCEPT !.content = fixed]
           /\ outcome' = [NoOutcome EXCEPT !.op = "fix_again",
                                           !.original = rule_file.content,
                                           !.fixed = (fixed # rule_file.content)]
    /\ UNCHANGED <<errors, warnings, extractorVars, bundlerVars, optimizerVars,
                   differVars, sessionVars>>

\* validate_all_rules(), the rules directory holding the rule file if it
\* exists and nothing else.
MainAll ==
    /\ outcome.op = "none"
    /\ IF rule_file.exists
       THEN \E result \in Validated(rule_file) :
               LET all_valid == /\ result.errors = <<>> /\ result.warnings = <<>>
                                /\ result.raised = ""
               IN  /\ errors' = result.errors
                   /\ warnings' = result.warnings
                   /\ outcome' = [NoOutcome EXCEPT !.op = "main",
                                                   !.argv = <<"--all">>,
                                                   !.raised = result.raised,
                                                   !.all_valid = all_valid,
                                                   !.exit_code = IF all_valid THEN 0 ELSE 1]
       ELSE /\ UNCHANGED <<errors, warnings>>
            /\ outcome' = [NoOutcome EXCEPT !.op = "main", !.argv = <<"--all">>,
                                            !.all_valid = TRUE]
    /\ UNCHANGED <<rule_file, extractorVars, bundlerVars, optimizerVars, differVars, sessionVars>>

\* main() with no argument, or with --fix and no file.
MainUsage ==
    /\ outcome.op = "none"
    /\ \E argv \in {<<>>, <<"--fix">>} :
          outcome' = [NoOutcome EXCEPT !.op = "main", !.argv = argv, !.exit_code = 1]
    /\ UNCHANGED <<rule_file, errors, warnings, extractorVars, bundlerVars,
                   optimizerVars, differVars, sessionVars>>

\* main() with a rule file, after --fix or alone.
MainFile ==
    /\ outcome.op = "none"
    /\ \E argv \in {<<"--fix", FileName>>, <<FileName>>} :
          LET fix_mode == argv[1] = "--fix"
          IN  IF fix_mode /\ ~rule_file.exists
              THEN /\ UNCHANGED <<rule_file, errors, warnings>>
                   /\ outcome' = [NoOutcome EXCEPT !.op = "main", !.argv = argv,
                                                   !.raised = "FileNotFoundError",
                                                   !.exit_code = 1]
              ELSE LET fixed == IF fix_mode THEN fix_common_issues(rule_file.content)
                                ELSE rule_file.content
                       file == [rule_file EXCEPT !.content = fixed]
                   IN  /\ rule_file' = file
                       /\ \E result \in Validated(file) :
                             /\ errors' = result.errors
                             /\ warnings' = result.warnings
                             /\ outcome' =
                                   [NoOutcome EXCEPT
                                       !.op = "main", !.argv = argv,
                                       !.original = rule_file.content,
                                       !.fixed = (fixed # rule_file.content),
                                       !.raised = result.raised,
                                       !.exit_code =
                                           IF \/ result.errors # <<>>
                                              \/ result.warnings # <<>>
                                              \/ result.raised # ""
                                           THEN 1 ELSE 0]
    /\ UNCHANGED <<extractorVars, bundlerVars, optimizerVars, differVars, sessionVars>>

NextValidate ==
    ValidateFile \/ FixCommonIssues \/ FixAgain \/ MainAll \/ MainUsage \/ MainFile

SpecValidate == InitValidate /\ [][NextValidate]_vars

\* ------------------------------------------------------------------------
\* Named bundles: at most MaxStoreCalls calls of create_named_bundle and
\* load_bundle on one RuleBundler

MaxStoreCalls == 3

BundleNames == {"review", "testing"}

StoreIndexOrder == <<"ts-naming", "uni-naming">>

StoreIndex ==
    [id \in {"ts-naming", "uni-naming"} |->
        IF id = "ts-naming"
        THEN IndexEntry("a.md", "typescript", "test-naming", <<>>, {})
        ELSE IndexEntry("b.md", "universal", "test-naming", <<>>, {})]

StoreRuleFiles == {<<>>, <<"a.md">>, <<"b.md", "a.md">>}

StoreSections == {<<>>, <<"RULE_SUMMARY", "CONTEXT_AND_RATIONALE">>}

InitStore ==
    /\ ExtractorIdle /\ OptimizerIdle /\ DifferIdle /\ ValidatorIdle
    /\ rules_index = StoreIndex
    /\ task = <<>>
    /\ analysis = NoAnalysis
    /\ bundle = EmptyBundle
    /\ bundles_dir = << >> /\ loaded = NoLoad /\ named = << >> /\ clock = 0
    /\ as_main \in BOOLEAN
    /\ BatchIdle /\ ReuseIdle

\* bundler.create_named_bundle(name, rule_files, sections).  The name
\* datetime is bound by the import under "if __name__ == '__main__'" only:
\* in an importing program the metadata assignment raises NameError, after
\* _build_bundle and before the file is written.
CreateNamedBundle ==
    /\ clock < MaxStoreCalls
    /\ \E name \in BundleNames, rule_files \in StoreRuleFiles, sections \in StoreSections :
          \E built \in {named_bundle(rules_index, StoreIndexOrder, name, rule_files,
                                    sections, clock)} :
              IF as_main
              THEN /\ bundles_dir' = (BundlePath(name) :> json_dumps(built)) @@ bundles_dir
                   /\ named' = (name :> built) @@ named
                   /\ loaded' = [op |-> "create_named_bundle", name |-> name,
                                 value |-> built, raised |-> ""]
              ELSE /\ UNCHANGED <<bundles_dir, named>>
                   /\ loaded' = [op |-> "create_named_bundle", name |-> name,
                                 value |-> PyNone, raised |-> "NameError"]
    /\ clock' = clock + 1
    /\ UNCHANGED <<as_main, extractorVars, bundlerVars, optimizerVars, differVars,
                   validatorVars, batchVars, reuseVars>>

\* bundler.load_bundle(name)
LoadBundle ==
    /\ clock < MaxStoreCalls
    /\ \E name \in BundleNames :
          IF BundlePath(name) \in DOMAIN bundles_dir
          THEN loaded' = [op |-> "load_bundle", name |-> name,
                          value |-> json_loads(bundles_dir[BundlePath(name)]),
                          raised |-> ""]
          ELSE loaded' = [op |-> "load_bundle", name |-> name, value |-> PyNone,
                          raised |-> "FileNotFoundError"]
    /\ clock' = clock + 1
    /\ UNCHANGED <<bundles_dir, named, as_main, extractorVars, bundlerVars,
                   optimizerVars, differVars, validatorVars, batchVars, reuseVars>>

NextStore == CreateNamedBundle \/ LoadBundle

SpecStore == InitStore /\ [][NextStore]_vars

\* ------------------------------------------------------------------------
\* The runs over a rules directory of at most MaxBatchFiles rule files

MaxBatchFiles == 3

BatchCategories == {"naming", "quality"}

Requirement(extra) ==
    PlainFront \o <<<<"h2", "MUST_FOLLOW">>, <<"item", <<"REQ", <<"0", "0", "1">>>>>>>>
               \o extra \o ConformingExamples

\* A rule file whose front matter is a plain text, which YAML loads as a
\* string.
ScalarFrontDocument ==
    <<<<"dash", "">>, <<"text", "notes">>, <<"dash", "">>,
      <<"h2", "MUST_FOLLOW">>, <<"item", <<"REQ", <<"0", "0", "1">>>>>>>>
    \o ConformingExamples

BatchEntry(rule_id, category, severity, file) ==
    [rule_id |-> rule_id, category |-> category, severity |-> severity, file |-> file]

BatchFile(doc) == [exists |-> TRUE, content |-> doc]

BatchEntries ==
    {BatchEntry("r-plain", "naming", "error", BatchFile(Requirement(<<>>))),
     BatchEntry("r-alpha", "naming", "error",
                BatchFile(Requirement(<<<<"text", "alpha">>>>))),
     BatchEntry("r-beta", "naming", "warning",
                BatchFile(Requirement(<<<<"text", "beta">>>>))),
     BatchEntry("r-none", "naming", "error", BatchFile(PlainFront \o ConformingExamples)),
     BatchEntry("r-gap", "naming", "warning",
                BatchFile(PlainFront \o <<<<"item", <<"REQ", <<"0", "0", "2">>>>>>>>
                          \o ConformingExamples)),
     BatchEntry("r-scalar", "naming", "error", BatchFile(ScalarFrontDocument)),
     BatchEntry("r-gone", "naming", "error", NoFile),
     BatchEntry("r-other", "quality", "error", BatchFile(Requirement(<<>>)))}

InitBatch ==
    /\ ExtractorIdle /\ BundlerIdle /\ bundle = EmptyBundle /\ OptimizerIdle
    /\ DifferIdle /\ ValidatorIdle /\ StoreIdle /\ ReuseIdle
    /\ rules_dir \in {q \in SeqsUpTo(BatchEntries, MaxBatchFiles) :
                          \A i, j \in DOMAIN q : i # j => q[i].rule_id # q[j].rule_id}
    /\ report = <<>>
    /\ comparisons = <<>>

\* main() with --all over the rules directory.
ValidateAllRules ==
    /\ outcome.op = "none"
    /\ LET files == GlobbedFiles(rules_dir)
       IN  \E results \in [DOMAIN files -> UNION {Validated(files[k]) : k \in DOMAIN files}] :
              /\ \A k \in DOMAIN files : results[k] \in Validated(files[k])
              /\ LET run == validate_all_rules(results)
                 IN  /\ report' = run.report
                     /\ outcome' = [NoOutcome EXCEPT !.op = "main",
                                                     !.argv = <<"--all">>,
                                                     !.raised = run.raised,
                                                     !.all_valid = run.all_valid,
                                                     !.exit_code =
                                                         IF run.all_valid THEN 0 ELSE 1]
    /\ UNCHANGED <<rule_file, errors, warnings, rules_dir, comparisons, extractorVars,
                   bundlerVars, optimizerVars, differVars, storeVars, reuseVars>>

CompareCategory(category) ==
    /\ outcome.op = "none"
    /\ comparisons' = compare_category(rules_dir, category)
    /\ outcome' = [NoOutcome EXCEPT !.op = "compare_category", !.argv = <<category>>]
    /\ UNCHANGED <<rule_file, errors, warnings, rules_dir, report, extractorVars,
                   bundlerVars, optimizerVars, differVars, storeVars, reuseVars>>

NextBatch == ValidateAllRules \/ \E category \in BatchCategories : CompareCategory(category)

SpecBatch == InitBatch /\ [][NextBatch]_vars

\* ------------------------------------------------------------------------
\* One RuleValidator used for up to MaxReuseCalls files

MaxReuseCalls == 3

ReuseFiles ==
    {NoFile,
     BatchFile(PlainFront \o ConformingExamples),
     BatchFile(PlainFront \o <<<<"start", "custom">>>> \o ConformingExamples),
     BatchFile(PlainFront \o <<<<"end", "requirements">>, <<"start", "custom">>>>),
     BatchFile(PlainFront \o <<<<"item", <<"REQ", <<"0", "0", "2">>>>>>>> \o ConformingExamples),
     BatchFile(ScalarFrontDocument)}

InitReuse ==
    /\ ExtractorIdle /\ BundlerIdle /\ bundle = EmptyBundle /\ OptimizerIdle
    /\ DifferIdle /\ ValidatorIdle /\ StoreIdle /\ BatchIdle
    /\ held = <<>>

\* errors, warnings = validator.validate_file(file) on the validator of the
\* earlier calls.  An entry of held is a pair of lists the caller got from
\* an earlier call: the file, the lists as they are now, and what they held
\* when they were returned.
ValidateNext(file) ==
    /\ Len(held) < MaxReuseCalls
    /\ \E result \in Validated(file) :
          LET after == validate_file_reused([errors |-> errors, warnings |-> warnings],
                                            result)
              kept == [k \in DOMAIN held |->
                          IF after.fresh THEN held[k]
                          ELSE [held[k] EXCEPT !.errors = after.errors,
                                               !.warnings = after.warnings]]
          IN  /\ errors' = after.errors
              /\ warnings' = after.warnings
              /\ held' = IF after.raised # "" THEN kept
                         ELSE Append(kept, [file |-> file,
                                            errors |-> after.errors,
                                            warnings |-> after.warnings,
                                            returned |-> [errors |-> after.errors,
                                                          warnings |-> after.warnings]])
              /\ outcome' = [NoOutcome EXCEPT !.op = "validate_file",
                                              !.raised = after.raised]
    /\ rule_file' = file
    /\ UNCHANGED <<extractorVars, bundlerVars, optimizerVars, differVars, storeVars,
                   batchVars>>

NextReuse == \E file \in ReuseFiles : ValidateNext(file)

SpecReuse == InitReuse /\ [][NextReuse]_vars

\* ------------------------------------------------------------------------
\* bundle_for_task followed by optimize_bundle on the bundle it returned

\* The budgets tried on a bundle: the estimate it records, the estimate
\* optimize_bundle takes of it, and their neighbours.
BudgetsFor(b) ==
    {m \in {b.metadata.token_estimate - 1, b.metadata.token_estimate,
            b.metadata.token_estimate + 1, estimate_tokens(b) - 1, estimate_tokens(b)} :
        m >= 0}

InitBudget == InitTask

\* r = optimize_bundle(bundle, m) on the bundle of bundle_for_task; the rules
\* of r are the rule objects of bundle.
OptimizeTaskBundle ==
    /\ analysis # NoAnalysis
    /\ returned = <<>>
    /\ \E m \in BudgetsFor(bundle) :
          /\ max_tokens' = m
          /\ given' = bundle
          /\ returned' = <<optimize_bundle(bundle, m)>>
          /\ bundle' = optimize_bundle(bundle, m)
    /\ UNCHANGED <<rules_index, task, analysis, extractorVars, differVars, validatorVars,
                   sessionVars>>

NextBudget == BundleForTask \/ OptimizeTaskBundle

SpecBudget == InitBudget /\ [][NextBudget]_vars

\* ------------------------------------------------------------------------
\* Claims about the extractor

HasMarkerPair(doc, n) ==
    \E i, j \in 1..Len(doc) :
        i < j /\ doc[i] = <<"start", n>> /\ doc[j] = <<"end", n>>

HasHeading(doc, n) == \E i \in 1..Len(doc) : doc[i] = <<"h2", UpperName(n)>>

\* C1: when the document holds a start marker for n that an end marker for
\* n follows, extract_section(n) returns the stripped text between the
\* first such start marker and the nearest end marker after it, whatever
\* "## N" heading section the document also holds.
C1_MarkerTextReturned ==
    call.op = "extract_section" =>
        \A i \in 1..Len(content) :
            ( /\ content[i] = <<"start", call.arg>>
              /\ \E j \in (i + 1)..Len(content) : content[j] = <<"end", call.arg>>
              /\ \A h \in 1..(i - 1) : content[h] # <<"start", call.arg>> )
            => \E j \in (i + 1)..Len(content) :
                  /\ content[j] = <<"end", call.arg>>
                  /\ \A m \in (i + 1)..(j - 1) : content[m] # <<"end", call.arg>>
                  /\ ret = Some(Strip(SubSeq(content, i + 1, j - 1)))

\* A marker pair and a "## N" heading section with other content, and the
\* marker text returned.
C1_Witness ==
    /\ call.op = "extract_section"
    /\ HasMarkerPair(content, call.arg)
    /\ HasHeading(content, call.arg)
    /\ HeadingText(content, call.arg) # MarkerText(content, call.arg)
    /\ ret.some /\ ret.text # <<>>

\* C2: with no marker for n and a "## N" heading line, extract_section(n)
\* returns the stripped text from after the first such heading up to the
\* next level-2 heading line or the end of the document; a "###" line
\* inside the section does not end it.
C2_HeadingTextToNextLevel2 ==
    ( /\ call.op = "extract_section"
      /\ \A i \in 1..Len(content) :
            content[i] \notin {<<"start", call.arg>>, <<"end", call.arg>>}
      /\ HasHeading(content, call.arg) )
    => \E i \in 1..Len(content) :
          /\ content[i] = <<"h2", UpperName(call.arg)>>
          /\ \A h \in 1..(i - 1) : content[h] # <<"h2", UpperName(call.arg)>>
          /\ ret = Some(Strip(SubSeq(content, i + 1,
                                     Stop(content, i + 1, {"h2"}) - 1)))

SectionAbsent(doc, names) ==
    \A n \in names : ~HasMarkerPair(doc, n) /\ ~HasHeading(doc, n)

NoLineOfKind(doc, kinds) == \A i \in 1..Len(doc) : doc[i][1] \notin kinds

EmptyPatterns == [good |-> <<>>, bad |-> <<>>]

\* C3 (as stated): in the record of extract_all an absent section never
\* yields the empty collection that a present section without records
\* yields.
C3_AbsentDiffersFromEmpty ==
    call.op = "extract_all" =>
        /\ SectionAbsent(content, {"requirements", "MUST_FOLLOW"})
              => ret.requirements # extract_requirements(<<<<"h2", "REQUIREMENTS">>>>)
        /\ SectionAbsent(content, {"antipatterns", "MUST_NOT_DO"})
              => ret.antipatterns # extract_antipatterns(<<<<"h2", "MUST_NOT_DO">>>>)
        /\ NoLineOfKind(content, {"hgood"})
              => ret.good_examples # extract_examples(<<<<"hgood", "1">>>>, "good")
        /\ NoLineOfKind(content, {"hbad"})
              => ret.bad_examples # extract_examples(<<<<"hbad", "1">>>>, "bad")
        /\ SectionAbsent(content, {"patterns"})
              => ret.patterns # extract_patterns(<<<<"h2", "PATTERNS">>>>)

\* C3 (amended): extract_all gives the empty collection for an absent
\* requirements, antipatterns, examples or patterns section, as it does for
\* a present section without records; only the text entries rule_summary,
\* metrics and automated_checks are null exactly when the section is absent.
C3_AbsentYieldsEmptyCollection ==
    call.op = "extract_all" =>
        /\ SectionAbsent(content, {"requirements", "MUST_FOLLOW"})
              => ret.requirements = <<>>
        /\ SectionAbsent(content, {"antipatterns", "MUST_NOT_DO"})
              => ret.antipatterns = <<>>
        /\ NoLineOfKind(content, {"item"})
              => ret.requirements = <<>> /\ ret.antipatterns = <<>>
        /\ NoLineOfKind(content, {"hgood"}) => ret.good_examples = <<>>
        /\ NoLineOfKind(content, {"hbad"}) => ret.bad_examples = <<>>
        /\ SectionAbsent(content, {"patterns"}) => ret.patterns = EmptyPatterns
        /\ NoLineOfKind(content, {"pgood", "pbad"}) => ret.patterns = EmptyPatterns
        /\ SectionAbsent(content, {"RULE_SUMMARY"}) <=> ret.rule_summary = None
        /\ SectionAbsent(content, {"metrics"}) <=> ret.metrics = None
        /\ SectionAbsent(content, {"AUTOMATED_CHECKS"}) <=> ret.automated_checks = None

\* No requirements section, tagged items under another section: the
\* requirements entry is the empty list while the antipatterns are found.
C3_Witness ==
    /\ call.op = "extract_all"
    /\ SectionAbsent(content, {"requirements", "MUST_FOLLOW"})
    /\ ~NoLineOfKind(content, {"item"})
    /\ ret.requirements = <<>>
    /\ ret.antipatterns # <<>>
    /\ ret.rule_summary = None

\* The block of the example heading at line i: up to the next "###" line.
BlockEnd(doc, i) == Stop(doc, i + 1, {"h3", "hgood", "hbad"}) - 1

\* C4: every record extract_examples(kind) returns carries the id of an
\* example heading of that kind whose own block holds the fenced code and
\* the "**Why this is kind**:" line, and its title, language, code and
\* explanation are those of that block.
C4_RecordsComeFromOwnBlock ==
    call.op = "extract_examples" =>
        \A x \in DOMAIN ret :
            \E i \in 1..Len(content) :
                /\ content[i] = <<ExampleHeading(call.arg), ret[x].id[2]>>
                /\ \E j, k \in (i + 1)..BlockEnd(content, i) :
                      /\ j < k /\ k + 1 <= BlockEnd(content, i)
                      /\ content[j][1] = "fence"
                      /\ content[k][1] = "close"
                      /\ content[k + 1] = <<"why", call.arg>>
                      /\ ret[x].title = SubSeq(content, i, j - 1)
                      /\ ret[x].language = content[j][2]
                      /\ ret[x].code = Strip(SubSeq(content, j + 1, k - 1))
                      /\ ret[x].explanation =
                            Strip(SubSeq(content, k + 1, BlockEnd(content, i)))

\* ------------------------------------------------------------------------
\* Claims about bundle_for_task

\* kw occurs in text at some position, character by character.
Occurs(kw, text) ==
    \E i \in 1..Len(text) :
        /\ i + Len(kw) - 1 <= Len(text)
        /\ \A k \in 1..Len(kw) : text[i + k - 1] = kw[k]

Hit(words) == \E kw \in words : Occurs(kw, Lower(task))

Called == analysis # NoAnalysis

\* C5: the action bundle_for_task records is the first of review, generate,
\* fix, learn whose keyword table has a keyword occurring in the lower-cased
\* task text, and unknown when none has.
C5_FirstMatchingActionWins ==
    Called =>
        LET action == bundle.metadata.context.action
        IN  /\ action = "review" <=> Hit(ReviewWords)
            /\ action = "generate" <=> ~Hit(ReviewWords) /\ Hit(GenerateWords)
            /\ action = "fix" <=>
                  ~Hit(ReviewWords) /\ ~Hit(GenerateWords) /\ Hit(FixWords)
            /\ action = "learn" <=>
                  /\ ~Hit(ReviewWords) /\ ~Hit(GenerateWords) /\ ~Hit(FixWords)
                  /\ Hit(LearnWords)
            /\ action = "unknown" <=>
                  /\ ~Hit(ReviewWords) /\ ~Hit(GenerateWords) /\ ~Hit(FixWords)
                  /\ ~Hit(LearnWords)

\* A task with a review word and a generate word, classified review.
C5_Witness ==
    /\ Called
    /\ Hit(ReviewWords) /\ Hit(GenerateWords)
    /\ bundle.metadata.context.action = "review"

\* The fixed table of section keys by action.
TableSections(action) ==
    CASE action = "review" -> {"summary", "antipatterns"}
      [] action = "generate" -> {"summary", "requirements", "good_examples"}
      [] action = "fix" -> {"summary", "antipatterns", "good_examples"}
      [] action = "learn" -> {"summary", "context"}
      [] action = "unknown" -> {"summary", "requirements", "antipatterns"}

\* The key that _build_bundle stores a requested section under.
KeyOfSection(section) ==
    CASE section = "RULE_SUMMARY" -> "summary"
      [] section \in {"requirements", "MUST_FOLLOW"} -> "requirements"
      [] section \in {"antipatterns", "MUST_NOT_DO"} -> "antipatterns"
      [] section = "good_examples" -> "good_examples"
      [] section = "CONTEXT_AND_RATIONALE" -> "context"

\* C6: the sections bundle_for_task extracts are the table entry of the
\* action the same call records in metadata.context.action.
C6_SectionsFollowRecordedAction ==
    Called =>
        /\ {KeyOfSection(analysis.sections[i]) : i \in DOMAIN analysis.sections}
              = TableSections(bundle.metadata.context.action)
        /\ \A i \in DOMAIN bundle.rules :
              DOMAIN bundle.rules[i].sections
                 = TableSections(bundle.metadata.context.action)

\* The score as the claim has it: each distinct keyword counted once.
DistinctKeywordScore(rule, context) ==
    (IF rule.language \in SeqToSet(context.languages) THEN 10
     ELSE IF rule.language = "universal" THEN 2 ELSE 0)
    + (IF rule.category \in SeqToSet(context.categories) THEN 8 ELSE 0)
    + 3 * Cardinality({kw \in SeqToSet(context.keywords) :
                          Occurs(kw, Lower(JoinWords(rule.tags)))})

\* C7: a rule is selected by score iff its score, with each distinct keyword
\* of the task counted once, is at least 8.
C7_SelectedIffDistinctScoreAtLeast8 ==
    Called =>
        \A id \in DOMAIN rules_index :
            id \in analysis.selected
               <=> DistinctKeywordScore(rules_index[id], analysis.context) >= 8

\* C8: the ids _select_rules_for_context returns are the score-selected set
\* with the direct prerequisites of its members and nothing else, each once.
C8_SelectionPlusDirectPrerequisites ==
    Called =>
        /\ SeqToSet(analysis.selected_rules)
              = analysis.selected
                \cup {p \in UNION {rules_index[id].prerequisites : id \in DOMAIN rules_index} :
                        \E id \in analysis.selected : p \in rules_index[id].prerequisites}
        /\ Len(analysis.selected_rules) = Cardinality(SeqToSet(analysis.selected_rules))

\* A selected rule whose prerequisite, not itself selected, is returned
\* while that prerequisite's own prerequisite is not.
C8_Witness ==
    /\ Called
    /\ \E id \in analysis.selected :
          \E p \in rules_index[id].prerequisites :
              /\ p \in DOMAIN rules_index
              /\ p \notin analysis.selected
              /\ p \in SeqToSet(analysis.selected_rules)
              /\ \E q \in rules_index[p].prerequisites :
                    q \notin SeqToSet(analysis.selected_rules)

\* ------------------------------------------------------------------------
\* Claims about optimize_bundle

\* C9: with r the bundle optimize_bundle(b, m) returned, optimize_bundle(r, m)
\* returns a bundle equal to r; and when the estimate of b is within m the
\* first call returns the content of b.
C9_OptimizeIdempotent ==
    /\ Len(returned) = 2 => returned[2] = returned[1]
    /\ Len(returned) >= 1 /\ estimate_tokens(given) <= max_tokens
          => returned[1] = given

\* The first call went through all three stages and trimmed a list, its
\* result is still over max_tokens, and the second call has returned.
C9_Witness ==
    /\ Len(returned) = 2
    /\ estimate_tokens(returned[1]) > max_tokens
    /\ returned[1] # given
    /\ \E i \in DOMAIN given.rules :
          /\ "antipatterns" \in DOMAIN given.rules[i].sections
          /\ Len(given.rules[i].sections["antipatterns"]) > 3
          /\ Len(returned[1].rules[i].sections["antipatterns"]) = 3

\* C10: the token estimate of the bundle optimize_bundle(b, m) returns is at
\* most m.
C10_ResultFitsBudget ==
    Len(returned) >= 1 => estimate_tokens(returned[1]) <= max_tokens

\* C11: after optimize_bundle(b, m) has returned, the bundle b the caller
\* gave has the content it had before the call.
C11_GivenBundleNotMutated ==
    Len(returned) = 1 => bundle = given

\* A rule of b that had the key and has it no longer in the result r.
LostKey(b, r, key) ==
    \E i \in DOMAIN b.rules :
        /\ key \in DOMAIN b.rules[i].sections
        /\ key \notin DOMAIN r.rules[i].sections

\* C12: in a bundle optimize_bundle returned, if some rule lost its
\* good_examples then no rule has good_examples, and if some rule lost its
\* context then no rule has context.
C12_StagesApplyToAllRules ==
    Len(returned) >= 1 =>
        \A key \in {"good_examples", "context"} :
            LostKey(given, returned[1], key) =>
                \A j \in DOMAIN returned[1].rules :
                    key \notin DOMAIN returned[1].rules[j].sections

\* ------------------------------------------------------------------------
\* Claims about diff_rules

IdSet(records) == {records[i].id : i \in DOMAIN records}

WithId(records, id) == {records[i] : i \in {j \in DOMAIN records : records[j].id = id}}

\* The three lists are the keyed differences of the records of two documents.
KeyedLists(records1, records2, changes) ==
    LET ids1 == IdSet(records1)
        ids2 == IdSet(records2)
    IN  /\ IdSet(changes.added) = ids2 \ ids1
        /\ IdSet(changes.removed) = ids1 \ ids2
        /\ IdSet(changes.modified) \subseteq ids1 \cap ids2
        /\ Len(changes.added) = Cardinality(IdSet(changes.added))
        /\ Len(changes.removed) = Cardinality(IdSet(changes.removed))
        /\ Len(changes.modified) = Cardinality(IdSet(changes.modified))
        /\ \A i \in DOMAIN changes.added :
              changes.added[i] \in WithId(records2, changes.added[i].id)
        /\ \A i \in DOMAIN changes.removed :
              changes.removed[i] \in WithId(records1, changes.removed[i].id)
        /\ \A id \in ids1 \cap ids2 :
              Cardinality(WithId(records1, id)) = 1 /\ Cardinality(WithId(records2, id)) = 1
                 => (id \in IdSet(changes.modified)
                        <=> WithId(records1, id) # WithId(records2, id))

KeyedMapping(fields1, fields2, changes) ==
    /\ DOMAIN changes.added = DOMAIN fields2 \ DOMAIN fields1
    /\ DOMAIN changes.removed = DOMAIN fields1 \ DOMAIN fields2
    /\ DOMAIN changes.modified =
          {k \in DOMAIN fields1 \cap DOMAIN fields2 : fields1[k] # fields2[k]}
    /\ \A k \in DOMAIN changes.added : changes.added[k] = fields2[k]
    /\ \A k \in DOMAIN changes.removed : changes.removed[k] = fields1[k]

\* C13: in a diff of two documents every requirement id, antipattern id and
\* metadata key is in added iff it is only in document 2, in removed iff it
\* is only in document 1, in modified iff it is in both with unequal records,
\* and in no two of them; added and removed carry the record of document 2
\* and of document 1.
C13_KeyedSetDifferences ==
    diff_result.done =>
        LET data1 == extract_all(rule1)
            data2 == extract_all(rule2)
        IN  /\ KeyedLists(data1.requirements, data2.requirements,
                          diff_result.requirement_changes)
            /\ KeyedLists(data1.antipatterns, data2.antipatterns,
                          diff_result.antipattern_changes)
            /\ KeyedMapping(data1.metadata.fields, data2.metadata.fields,
                            diff_result.metadata_changes)

\* A diff with a requirement added, a requirement modified, an antipattern
\* removed and a metadata key added.
C13_Witness ==
    /\ diff_result.done
    /\ Len(diff_result.requirement_changes.added) > 0
    /\ Len(diff_result.requirement_changes.modified) > 0
    /\ Len(diff_result.antipattern_changes.removed) > 0
    /\ DOMAIN diff_result.metadata_changes.added # {}

NoChanges(changes) ==
    changes.added = <<>> /\ changes.removed = <<>> /\ changes.modified = <<>>

\* C14: diff_rules(D, D) completes, with nothing added, removed or modified,
\* no flag set and no breaking change.
C14_SelfDiffIsEmpty ==
    rule1 = rule2 /\ diff_result # NoDiff =>
        /\ diff_result.done
        /\ DOMAIN diff_result.metadata_changes.added = {}
        /\ DOMAIN diff_result.metadata_changes.removed = {}
        /\ DOMAIN diff_result.metadata_changes.modified = {}
        /\ NoChanges(diff_result.requirement_changes)
        /\ NoChanges(diff_result.antipattern_changes)
        /\ diff_result.example_changes.good_examples.added = 0
        /\ diff_result.example_changes.good_examples.removed = 0
        /\ diff_result.example_changes.bad_examples.added = 0
        /\ diff_result.example_changes.bad_examples.removed = 0
        /\ ~diff_result.summary.severity_changed
        /\ ~diff_result.summary.category_changed
        /\ ~diff_result.summary.language_changed
        /\ diff_result.summary.breaking_changes = <<>>

\* The metadata field differs between the two documents.
FieldDiffers(key) ==
    LET f1 == extract_all(rule1).metadata.fields
        f2 == extract_all(rule2).metadata.fields
    IN  \/ (key \in DOMAIN f1) # (key \in DOMAIN f2)
        \/ key \in DOMAIN f1 /\ key \in DOMAIN f2 /\ f1[key] # f2[key]

FieldIs(doc, key, value) ==
    LET f == extract_all(doc).metadata.fields
    IN  key \in DOMAIN f /\ f[key] = value

Count(b) == IF b THEN 1 ELSE 0

\* C15: each *_changed flag is set iff its metadata field differs, and
\* breaking_changes holds one string per changed field among severity and
\* language and none for a category change.
C15_BreakingChangesOnlyForSeverityAndLanguage ==
    diff_result.done =>
        LET summary == diff_result.summary
        IN  /\ summary.severity_changed <=> FieldDiffers("severity")
            /\ summary.category_changed <=> FieldDiffers("category")
            /\ summary.language_changed <=> FieldDiffers("language")
            /\ Len(summary.breaking_changes)
                  = Count(FieldDiffers("severity")) + Count(FieldDiffers("language"))
            /\ \A i \in DOMAIN summary.breaking_changes :
                  summary.breaking_changes[i].field \in {"Severity", "Language"}
            /\ FieldIs(rule1, "severity", "error") /\ FieldIs(rule2, "severity", "warning")
               /\ ~FieldDiffers("language")
                  => summary.breaking_changes
                        = <<[field |-> "Severity", old |-> "error", new |-> "warning"]>>
            /\ FieldDiffers("category") /\ ~FieldDiffers("severity")
               /\ ~FieldDiffers("language")
                  => summary.category_changed /\ summary.breaking_changes = <<>>

\* A diff of two documents whose severity goes from error to warning, all
\* else being equal.
C15_Witness ==
    /\ diff_result.done
    /\ FieldIs(rule1, "severity", "error") /\ FieldIs(rule2, "severity", "warning")
    /\ ~FieldDiffers("category") /\ ~FieldDiffers("language")
    /\ diff_result.summary.severity_changed
    /\ Len(diff_result.summary.breaking_changes) = 1

\* The example diff of one kind, for the example counts of two documents.
CountsAre(counts, before, after) ==
    /\ counts.total_before = before
    /\ counts.total_after = after
    /\ counts.added = after - before
    /\ counts.removed = (IF before - after > 0 THEN before - after ELSE 0)
    /\ counts.removed >= 0

\* C16: for good and for bad examples the diff gives the two example counts,
\* added as their difference after - before and removed as
\* max(0, before - after).
C16_ExampleCounts ==
    diff_result.done =>
        /\ CountsAre(diff_result.example_changes.good_examples,
                     Len(extract_examples(rule1, "good")),
                     Len(extract_examples(rule2, "good")))
        /\ CountsAre(diff_result.example_changes.bad_examples,
                     Len(extract_examples(rule1, "bad")),
                     Len(extract_examples(rule2, "bad")))

\* Document 2 has fewer good examples and more bad examples than document 1.
C16_Witness ==
    /\ diff_result.done
    /\ diff_result.example_changes.good_examples.added < 0
    /\ diff_result.example_changes.good_examples.removed > 0
    /\ diff_result.example_changes.bad_examples.added > 0
    /\ diff_result.example_changes.bad_examples.removed = 0

\* ------------------------------------------------------------------------
\* Claims about the validator

\* The start and end markers of one name, in document order.
RECURSIVE MarkersNamed(_, _)
MarkersNamed(doc, name) ==
    IF doc = <<>> THEN <<>>
    ELSE (IF Head(doc)[1] \in {"start", "end"} /\ Head(doc)[2] = name
          THEN <<Head(doc)[1]>> ELSE <<>>)
         \o MarkersNamed(Tail(doc), name)

Starts(kinds, n) == Cardinality({i \in 1..n : kinds[i] = "start"})

\* Every start marker pairs with an end marker of its name after it, and
\* every end marker with a start marker before it, no marker in two pairs.
MatchedOneToOne(doc) ==
    \A name \in {doc[i][2] : i \in {j \in DOMAIN doc : doc[j][1] \in {"start", "end"}}} :
        LET kinds == MarkersNamed(doc, name)
        IN  /\ 2 * Starts(kinds, Len(kinds)) = Len(kinds)
            /\ \A n \in 1..Len(kinds) : 2 * Starts(kinds, n) >= n

IsMarkerError(message) ==
    message.msg \in {"Missing end marker for EXTRACT", "Missing start marker for EXTRACT"}

\* C17: validate_file reports an extraction-marker error whenever the start
\* and end markers of the document are not matched one to one by name: two
\* start markers with one end marker of the same name, or an end marker
\* before its only start marker, is reported as an error.
C17_UnmatchedMarkersReported ==
    (outcome.op = "validate_file" /\ rule_file.exists
     /\ ~MatchedOneToOne(rule_file.content))
        => \E i \in DOMAIN errors : IsMarkerError(errors[i])

IdFamilies == {"REQ", "ANT"}

\* The numbers of the tags of a family, in document order.
TaggedNumbers(doc, prefix) ==
    LET ids == TaggedIds(doc, prefix) IN [i \in DOMAIN ids |-> ToInt(ids[i])]

\* Sorted ascending, the numbers are exactly 1..N: each of 1..N is carried
\* by one tag and no tag carries another number.
Exactly1ToN(numbers) ==
    /\ \A i, j \in DOMAIN numbers : numbers[i] = numbers[j] => i = j
    /\ {numbers[i] : i \in DOMAIN numbers} = 1..Len(numbers)

\* Position k of the sorted numbers holds k: fewer than k numbers are below
\* k and at least k numbers are at most k.
SortedHolds(numbers, k) ==
    /\ Cardinality({i \in DOMAIN numbers : numbers[i] < k}) < k
    /\ Cardinality({i \in DOMAIN numbers : numbers[i] <= k}) >= k

FirstDeviation(numbers) == Min({k \in DOMAIN numbers : ~SortedHolds(numbers, k)})

FirstMissing(numbers) ==
    Min({k \in 1..(Len(numbers) + 1) : \A i \in DOMAIN numbers : numbers[i] # k})

SequenceWarnings(list, prefix) ==
    {i \in DOMAIN list : list[i].msg = "IDs are not sequential" /\ list[i].name = prefix}

\* What C18 says apart from the ID the warning names.
SequenceWarningIffNotSequential(prefix) ==
    LET numbers == TaggedNumbers(rule_file.content, prefix)
    IN  /\ SequenceWarnings(warnings, prefix) # {} <=> ~Exactly1ToN(numbers)
        /\ Cardinality(SequenceWarnings(warnings, prefix)) <= 1
        /\ SequenceWarnings(errors, prefix) = {}

\* C18 as stated: for each ID family, validate_file emits a sequencing
\* warning iff the tagged numbers sorted ascending are not exactly 1..N,
\* at most one per family, never as an error, and the warning names the
\* first ID of the family that the document is missing.
C18_WarningNamesFirstMissingId ==
    (outcome.op = "validate_file" /\ rule_file.exists) =>
        \A prefix \in IdFamilies :
            /\ SequenceWarningIffNotSequential(prefix)
            /\ \A i \in SequenceWarnings(warnings, prefix) :
                  warnings[i].expected
                      = Pad3(FirstMissing(TaggedNumbers(rule_file.content, prefix)))

\* C18 amended: for each ID family, validate_file emits a sequencing
\* warning iff the tagged numbers sorted ascending are not exactly 1..N,
\* at most one per family, never as an error, and the warning names as
\* expected the ID of the first position k at which the sorted numbers do
\* not hold k, and as found the number that position holds; after a
\* duplicate that expected ID can be one the document carries.
C18_WarningNamesFirstDeviation ==
    (outcome.op = "validate_file" /\ rule_file.exists) =>
        \A prefix \in IdFamilies :
            LET numbers == TaggedNumbers(rule_file.content, prefix)
            IN  /\ SequenceWarningIffNotSequential(prefix)
                /\ \A i \in SequenceWarnings(warnings, prefix) :
                      /\ warnings[i].expected = Pad3(FirstDeviation(numbers))
                      /\ \E j \in DOMAIN numbers :
                            /\ warnings[i].found = Pad3(numbers[j])
                            /\ Cardinality({n \in DOMAIN numbers : numbers[n] < numbers[j]})
                                  < FirstDeviation(numbers)
                            /\ Cardinality({n \in DOMAIN numbers : numbers[n] <= numbers[j]})
                                  >= FirstDeviation(numbers)

\* The document tagged REQ001, REQ002, REQ004 gets one warning, which cites
\* the expected REQ003.
C18_Witness ==
    /\ outcome.op = "validate_file"
    /\ TaggedNumbers(rule_file.content, "REQ") = <<1, 2, 4>>
    /\ Cardinality(SequenceWarnings(warnings, "REQ")) = 1
    /\ \A i \in SequenceWarnings(warnings, "REQ") :
          warnings[i].expected = <<"0", "0", "3">> /\ warnings[i].found = <<"0", "0", "4">>

\* C19: warnings never fail validation. When the validation of the rule
\* file yields no error and some warning, main with the file as its
\* argument exits with code 0 and the --all run counts the file as valid;
\* exit code 1 comes only with an error, a missing file or a missing
\* argument.
C19_WarningsNeverFail ==
    outcome.op = "main" =>
        /\ ( /\ outcome.argv \in {<<FileName>>, <<"--all">>}
             /\ rule_file.exists
             /\ errors = <<>> /\ warnings # <<>> )
           => /\ outcome.exit_code = 0
              /\ outcome.argv = <<"--all">> => outcome.all_valid
        /\ outcome.exit_code = 1
           => \/ errors # <<>>
              \/ ~rule_file.exists
              \/ outcome.argv \in {<<>>, <<"--fix">>}

\* validate_file reports no error and no warning on the document.
Conformant(doc) ==
    \A result \in Validated([exists |-> TRUE, content |-> doc]) :
        result.errors = <<>> /\ result.warnings = <<>>

\* C20: fix_common_issues is a no-op on a conformant document. On every
\* document on which validate_file reports no error and no warning, one
\* with a MUST_FOLLOW section, example headings and no extraction marker
\* included, it returns false and leaves the content of the file unchanged.
C20_FixLeavesConformantUnchanged ==
    ( /\ outcome.op = "fix_common_issues" /\ outcome.raised = ""
      /\ Conformant(outcome.original) )
        => ~outcome.fixed /\ rule_file.content = outcome.original

\* The lines of the section a heading line opens: up to the next heading
\* of its level or above.
SectionEnd(doc, i) ==
    LET closing == IF doc[i][1] = "h2" THEN {"h2"}
                   ELSE {"h2", "h3", "hgood", "hbad", "hloosegood", "hloosebad"}
    IN  Min({j \in (i + 1)..Len(doc) : Base(doc[j])[1] \in closing} \cup {Len(doc) + 1})

\* The document has a section of this name, at either heading level, that
\* holds no tagged item of the family.
SectionLacksTag(doc, name, prefix) ==
    \E i \in DOMAIN doc :
        /\ doc[i] \in {<<"h2", name>>, <<"h3", name>>}
        /\ \A j \in (i + 1)..(SectionEnd(doc, i) - 1) :
              ~(Base(doc[j])[1] = "item" /\ Base(doc[j])[2][1] = prefix)

FormatWarnings(list, name) ==
    {i \in DOMAIN list :
        /\ list[i].msg \in {"section should use REQ### format",
                            "section should use ANT### format"}
        /\ list[i].name = name}

\* C21: validate_file emits the format warning for every document with a
\* MUST_FOLLOW section that holds no REQ tagged item, and for every one
\* with a MUST_NOT_DO section that holds no ANT tagged item, whatever tags
\* other sections hold and whatever the level of the section's heading;
\* the report is a warning, never an error.
C21_FormatWarningForUntaggedSection ==
    (outcome.op = "validate_file" /\ rule_file.exists) =>
        \A pair \in {<<"MUST_FOLLOW", "REQ">>, <<"MUST_NOT_DO", "ANT">>} :
            /\ SectionLacksTag(rule_file.content, pair[1], pair[2])
                  => FormatWarnings(warnings, pair[1]) # {}
            /\ FormatWarnings(errors, pair[1]) = {}

\* ------------------------------------------------------------------------
\* Claims about named bundles

\* C22: named-bundle persistence behaves as a map from name to bundle over
\* any sequence of create_named_bundle and load_bundle calls.  A
\* create_named_bundle call stores the bundle it builds under its name,
\* load_bundle(n) returns the bundle the most recent create_named_bundle(n)
\* wrote, creating under one name leaves the file of every other name as
\* it was, and load_bundle of a name never created fails with a not-found
\* condition and changes nothing.
C22_NamedBundlesAreAMap ==
    /\ [](loaded.op = "create_named_bundle" =>
            /\ loaded.raised = ""
            /\ BundlePath(loaded.name) \in DOMAIN bundles_dir
            /\ json_loads(bundles_dir[BundlePath(loaded.name)]) = loaded.value)
    /\ [](loaded.op = "load_bundle" =>
            IF loaded.name \in DOMAIN named
            THEN loaded.raised = "" /\ loaded.value = named[loaded.name]
            ELSE loaded.raised = "FileNotFoundError")
    /\ [][ /\ \A path \in DOMAIN bundles_dir :
                path # BundlePath(loaded'.name) =>
                    path \in DOMAIN bundles_dir' /\ bundles_dir'[path] = bundles_dir[path]
           /\ loaded'.op = "load_bundle" => bundles_dir' = bundles_dir ]_vars

\* ------------------------------------------------------------------------
\* The runs over every rule file

\* The rules of a category, in the order of the directory.
RulesOf(category) == RulesOfCategory(rules_dir, category)

\* A rule file that fails while it is processed: it cannot be read, or its
\* front matter is not a mapping.
Fails(file) ==
    \/ ~file.exists
    \/ LET metadata == validator_extract_metadata(file.content)
       IN  ~metadata.null /\ ~metadata.mapping

\* C23: a run over every rule file never stops at one file's failure.  After
\* the --all run every file of the directory has its lists of errors and
\* warnings in the report, a file that fails with errors, and nothing is
\* raised; after compare_category every pair of rules of the category has its
\* comparison, and a pair one of whose files cannot be read has similarity
\* 0.0.
C23_BatchRunsNeverAbort ==
    /\ (outcome.op = "main" /\ rules_dir # <<>>) =>
          LET files == GlobbedFiles(rules_dir)
          IN  /\ outcome.raised = ""
              /\ Len(report) = Len(files)
              /\ \A k \in DOMAIN files :
                    Fails(files[k]) => k \in DOMAIN report /\ report[k].errors # <<>>
    /\ outcome.op = "compare_category" =>
          LET rules == RulesOf(outcome.argv[1])
          IN  /\ \A i, j \in DOMAIN rules :
                    i < j => \E k \in DOMAIN comparisons :
                                /\ comparisons[k].rule1 = rules[i].rule_id
                                /\ comparisons[k].rule2 = rules[j].rule_id
                                /\ (~rules[i].file.exists \/ ~rules[j].file.exists)
                                      => comparisons[k].similarity = ZeroSimilarity
              /\ 2 * Len(comparisons) = Len(rules) * (Len(rules) - 1)

\* ------------------------------------------------------------------------
\* The order of the stages of optimize_bundle

\* A rule of b whose sections differ in r in more than the two keys the
\* first two stages delete: the third stage has replaced them.
CollapsedIn(b, r) ==
    \E i \in DOMAIN b.rules :
        \E key \in DOMAIN b.rules[i].sections \ {"good_examples", "context"} :
            \/ key \notin DOMAIN r.rules[i].sections
            \/ r.rules[i].sections[key] # b.rules[i].sections[key]

HasKey(r, keys) ==
    \E j \in DOMAIN r.rules : DOMAIN r.rules[j].sections \cap keys # {}

StagesInOrder(b, r) ==
    /\ LostKey(b, r, "context") => ~HasKey(r, {"good_examples"})
    /\ CollapsedIn(b, r) => ~HasKey(r, {"good_examples", "context"})

\* C24: optimize_bundle applies its stages in order.  In the bundle a call
\* returns, a rule has lost its context only if no rule has good_examples
\* any more, and a rule's sections have been collapsed only if no rule has
\* good_examples or context any more; this holds of the first call on the
\* bundle given and of the second call on the bundle the first returned.
C24_StagesInStrictOrder ==
    /\ Len(returned) >= 1 => StagesInOrder(given, returned[1])
    /\ Len(returned) = 2 => StagesInOrder(returned[1], returned[2])

\* The first call took good_examples from every rule that had them, took the
\* context from one rule and returned while another rule still had its
\* context.
C24_Witness ==
    /\ Len(returned) >= 1
    /\ LostKey(given, returned[1], "good_examples")
    /\ LostKey(given, returned[1], "context")
    /\ HasKey(returned[1], {"context"})

\* The first call went through all three stages and cut a list of
\* requirements to three.
ThirdStageReached ==
    /\ Len(returned) >= 1
    /\ CollapsedIn(given, returned[1])
    /\ HasKey(given, {"good_examples"}) /\ HasKey(given, {"context"})

\* ------------------------------------------------------------------------
\* fix_common_issues applied twice

\* C25: fix_common_issues is idempotent.  A second application straight
\* after the first returns false and leaves the content the first one
\* produced unchanged.
C25_FixIsIdempotent ==
    outcome.op = "fix_again" => ~outcome.fixed /\ rule_file.content = outcome.original

\* ------------------------------------------------------------------------
\* fix_common_issues and the extraction markers

MarkerErrors(list) == {list[i] : i \in {j \in DOMAIN list : IsMarkerError(list[j])}}

\* The text between the first start marker for name and the nearest end
\* marker for name after it.
MarkerDelimited(doc, name, text) ==
    \E i, j \in DOMAIN doc :
        /\ i < j
        /\ doc[i] = <<"start", name>> /\ doc[j] = <<"end", name>>
        /\ \A h \in 1..(i - 1) : doc[h] # <<"start", name>>
        /\ \A h \in (i + 1)..(j - 1) : doc[h] # <<"end", name>>
        /\ text = Strip(SubSeq(doc, i + 1, j - 1))

\* C26: fix_common_issues never makes a document worse.  The extraction
\* marker errors validate_file reports after the fix are among those it
\* reports before; an end marker for requirements the fix has put in has a
\* start marker for requirements in the document; and when validate_file
\* reports no marker error, extract_section returns the marker-delimited text
\* for each marker name of the document.
C26_FixNeverWorsens ==
    /\ (outcome.op = "fix_common_issues" /\ outcome.raised = "") =>
          /\ \A after \in Validated(rule_file) :
                \A before \in Validated([exists |-> TRUE, content |-> outcome.original]) :
                    MarkerErrors(after.errors) \subseteq MarkerErrors(before.errors)
          /\ ( /\ <<"requirements", "end">> \in Markers(rule_file.content)
               /\ <<"requirements", "end">> \notin Markers(outcome.original) )
                => <<"requirements", "start">> \in Markers(rule_file.content)
    /\ ( /\ outcome.op = "validate_file" /\ rule_file.exists
         /\ MarkerErrors(errors) = {} ) =>
          \A marker \in Markers(rule_file.content) :
              LET section == extract_section(rule_file.content, marker[1])
              IN  section.some /\ MarkerDelimited(rule_file.content, marker[1], section.text)

\* The first part alone: the marker errors after the fix are among those
\* before it.
FixAddsNoMarkerError ==
    (outcome.op = "fix_common_issues" /\ outcome.raised = "") =>
        \A after \in Validated(rule_file) :
            \A before \in Validated([exists |-> TRUE, content |-> outcome.original]) :
                MarkerErrors(after.errors) \subseteq MarkerErrors(before.errors)

\* The last part alone: accepted markers delimit what extract_section
\* returns.
AcceptedMarkersExtract ==
    ( /\ outcome.op = "validate_file" /\ rule_file.exists
      /\ MarkerErrors(errors) = {} ) =>
        \A marker \in Markers(rule_file.content) :
            LET section == extract_section(rule_file.content, marker[1])
            IN  section.some /\ MarkerDelimited(rule_file.content, marker[1], section.text)

\* ------------------------------------------------------------------------
\* A validator used for several files

\* C27: a reused RuleValidator carries no state between files.  The lists a
\* call returned for a file are lists a new validator can return for that
\* file, and the lists an earlier call returned still hold what they held
\* when they were returned.
C27_ReusedValidatorCarriesNoState ==
    \A k \in DOMAIN held :
        /\ \E fresh \in Validated(held[k].file) :
              /\ fresh.raised = ""
              /\ held[k].returned.errors = fresh.errors
              /\ held[k].returned.warnings = fresh.warnings
        /\ held[k].errors = held[k].returned.errors
        /\ held[k].warnings = held[k].returned.warnings

\* Three calls on one validator have returned, the first with an error and a
\* warning, the second for another file, the last with empty lists.
C27_Witness ==
    /\ Len(held) = 3
    /\ held[1].errors # <<>> /\ held[1].warnings # <<>>
    /\ held[3].errors = <<>> /\ held[3].warnings = <<>>
    /\ held[2].file # held[1].file

\* ------------------------------------------------------------------------
\* What bundle_for_task records about the bundle

\* C28: in the bundle bundle_for_task returned, metadata.rule_count is the
\* number of entries of the rules mapping, also when a selected rule or
\* prerequisite is missing from the index or its file does not exist.
C28_RuleCountIsNumberOfRules ==
    Called => bundle.metadata.rule_count = Len(bundle.rules)

\* C29: the token estimate a bundle records agrees with the one the optimizer
\* uses.  For the bundle b of bundle_for_task and a budget m that is at least
\* b.metadata.token_estimate, optimize_bundle(b, m) returns b unchanged.
C29_RecordedEstimateIsOptimizersEstimate ==
    (Len(returned) = 1 /\ given.metadata.present
     /\ given.metadata.token_estimate <= max_tokens)
        => returned[1] = given

\* ------------------------------------------------------------------------
\* What optimize_bundle leaves of a bundle

IsPrefix(short, long) ==
    Len(short) <= Len(long) /\ short = SubSeq(long, 1, Len(short))

ListKeys == {"requirements", "antipatterns", "good_examples"}

\* r has the rules of b, with their metadata, and the metadata of b; every
\* section value of r is the value in b or a prefix of it; and the token
\* estimate of r is not greater than that of b.
OnlyRemoves(b, r) ==
    \/ r = b
    \/ /\ Len(r.rules) = Len(b.rules)
       /\ \A i \in DOMAIN b.rules :
             /\ r.rules[i].id = b.rules[i].id
             /\ r.rules[i].metadata = b.rules[i].metadata
             /\ \A key \in DOMAIN r.rules[i].sections :
                   /\ key \in DOMAIN b.rules[i].sections
                   /\ IF key \in ListKeys
                      THEN IsPrefix(r.rules[i].sections[key], b.rules[i].sections[key])
                      ELSE r.rules[i].sections[key] = b.rules[i].sections[key]
       /\ r.metadata = b.metadata
       /\ estimate_tokens(r) <= estimate_tokens(b)

\* C30: optimize_bundle only ever removes section content.  The bundle a
\* call returns has the rule ids of the bundle given, the same rule and
\* bundle metadata, section values that are equal to or prefixes of the ones
\* given, and a token estimate that is not greater; this holds when the first
\* call has returned, and of the second call on the bundle the first returned.
C30_OptimizeOnlyRemoves ==
    /\ Len(returned) = 1 => OnlyRemoves(given, returned[1])
    /\ Len(returned) = 2 => OnlyRemoves(returned[1], returned[2])

\* The call deleted a key from one rule and cut a list of four records of
\* another key to its first three.
C30_Witness ==
    /\ Len(returned) = 1
    /\ \E i \in DOMAIN given.rules :
          DOMAIN returned[1].rules[i].sections # DOMAIN given.rules[i].sections
    /\ \E i \in DOMAIN given.rules :
          \E key \in DOMAIN returned[1].rules[i].sections \cap ListKeys :
              /\ Len(given.rules[i].sections[key]) = 4
              /\ returned[1].rules[i].sections[key]
                    = SubSeq(given.rules[i].sections[key], 1, 3)
    /\ estimate_tokens(returned[1]) < estimate_tokens(given)

====
